---------------------------- MODULE Spec2Model ----------------------------
(***************************************************************************)
(* A model of the asyn reactor core of Cynical Calendars: the Controller's *)
(* timer queue and dispatch loop (asyn/controller.py), the callback funnel *)
(* (asyn/core.py), the cross-thread injection queue (asyn/inject.py) and   *)
(* the multi-candidate TCP connector (asyn/resolve.py).                    *)
(*                                                                         *)
(* Each part of the program has its own variables, its own actions and its *)
(* own specification (SpecTimer, SpecCallable, SpecInject, SpecConnector); *)
(* a specification leaves the other parts' variables unchanged.            *)
(***************************************************************************)
EXTENDS Integers, Sequences, FiniteSets, TLC

\* Python's None where a number may stand (Scheduled.when, a call's result).
\* It is chosen below every number the model uses, which is also how
\* Python 2 orders it: cmp(None, x) = -1 for every number x.
None == -1

(***************************************************************************)
(*                              The state                                  *)
(***************************************************************************)

\* The timers of a Controller (asyn/controller.py).
VARIABLES
    when,       \* when[t]: Scheduled.when of timer object t (None: cancelled)
    schedq,     \* Controller._schedq: the heap array, holding timer objects
    nTimers,    \* number of Scheduled objects created so far
    now,        \* time.time()
    running,    \* Controller.running
    tpc,        \* where run() is: "idle", "dispatch1", "select", "dispatch2"
    backstop,   \* _dispatch's local countdown
    ctx,        \* the Ctx of the timer callout in progress, or NoCtx
    \* history (not program state)
    base,       \* base[t]: the chain of after= reschedules of timer t
    firedFor,   \* the chain of the timer being called out, as it was dispatched
    overtaken   \* timers that were pending when a later timer was called out

timerVars == <<when, schedq, nTimers, now, running, tpc, backstop, ctx,
               base, firedFor, overtaken>>

\* A callback funnel (asyn/core.py).
VARIABLES
    callbacks,  \* Callable._callbacks: the list of registered observers
    reducer,    \* Callable._callback_reducer: "or" (the default) or "None"
    cpc,        \* "idle"; "emitting" in callout(); "returned" as it returns
    latched,    \* callout's copy of the callback list
    idx,        \* number of observers callout has called so far
    results,    \* the results of those calls
    ret,        \* what callout() returns
    \* history (not program state)
    atStart,    \* the callback list as callout() was entered
    calledSeq,  \* the observers callout() has called, in call order
    removedDue  \* a registered observer was removed during the emit, not yet called

cbVars == <<callbacks, reducer, cpc, latched, idx, results, ret,
            atStart, calledSeq, removedDue>>

\* The injection queue of an inject.Controller (asyn/inject.py).
VARIABLES
    iq,         \* _Inject._q: the deque of posted calls
    nCalls,     \* number of calls posted so far; a call is named by its rank
    pipe,       \* bytes written to the wake-up pipe and not read yet
    poster,     \* poster[t]: "idle", or "appended" inside _Inject.post
    rpc,        \* the reactor: "select", "drain", "call", or "crashed"
    cur,        \* the call the drain popped and is executing (0: none)
    did,        \* how the last executed call ended
    wpc,        \* the thread in inject_wait: "idle", "appended", "check",
                \* "waiting" in cond.wait(), "woken", "done"
    lockHeld,   \* that thread holds the lock of cond
    reply,      \* inject_wait's reply dictionary
    runnerId,   \* the queue entry that is inject_wait's runner (0: none)
    \* history (not program state)
    executed,   \* the calls the reactor has executed, in order
    passStart,  \* Len(executed) as the current drain pass began
    late,       \* a call was appended while the current drain pass ran
    swallowed,  \* the last call whose exception the drain swallowed (0: none)
    outcome,    \* what inject_wait's call did on the reactor thread
    wret        \* what inject_wait returned or raised

injVars == <<iq, nCalls, pipe, poster, rpc, cur, did, wpc, lockHeld, reply,
             runnerId, executed, passStart, late, swallowed, outcome, wret>>

\* A TCPConnector and the Connectors it makes (asyn/resolve.py).
VARIABLES
    res,        \* the candidate list given to TCPConnector: how each connects
    tstate,     \* "new" before TCPConnector.__init__ has run, then "built"
    candidates, \* TCPConnector.candidates: the candidates not tried yet
    connector,  \* TCPConnector.connector: a Connector, or 0 for None
    lasterror,  \* TCPConnector._lasterror: 0 for the initial text, or the
                \* error of a candidate, named by the candidate's rank
    tcontrol,   \* TCPConnector.control is not None
    cmap,       \* Controller._map: the Connectors inserted and not removed
    emitted,    \* the events called out to the TCPConnector's observers
    nCloses,    \* number of calls of TCPConnector.close()
    \* history (not program state)
    closedAt    \* 0, or where in emitted the event of the first close() made
                \* with an attempt in flight belongs

connVars == <<res, tstate, candidates, connector, lasterror, tcontrol, cmap,
              emitted, nCloses, closedAt>>

\* A thread in inject_callout (asyn/inject.py).
VARIABLES
    icpc,       \* the thread: "idle", "scheduled", "appended", "check",
                \* "waiting" in cond.wait(), "woken", "done"
    icLock,     \* that thread holds the lock of cond
    icReply,    \* reply['ctx']: "None", or the state of the context stored
    icTimer,    \* timer: the Scheduled of the timeout (0: no timeout given)
    icCall,     \* the queue entry that is the injected call (0: none yet)
    icRet       \* what inject_callout did: "none" yet, "None" returned on a
                \* timeout, "value" returned, "raise"

icVars == <<icpc, icLock, icReply, icTimer, icCall, icRet>>

\* The descriptor objects of a Controller (asyn/selectable.py).
VARIABLES
    kind,       \* kind[o]: "none" before object o is constructed, then
                \* "Stream", "IO" (Datagram, Listener, Connector) or "Inject"
    ofd,        \* ofd[o]: what o.fileno() returns
    ocontrol,   \* ocontrol[o]: o.control is the Controller (not None)
    fdOpen,     \* fdOpen[o]: the OS descriptor of o is open
    fdmap,      \* Controller._map: fdmap[fd] is an object, or 0 for no key
    events,     \* events[o]: the contexts called out to the observers of o
    wbuf,       \* wbuf[o]: the length of Stream._wbuf
    shut,       \* shut[o]: Stream._shutdown
    closing,    \* the object whose close() is calling out CLOSE (0: none)
    tearing,    \* Controller.close() is in its loop
    items,      \* ... and these objects of its list are still to close
    \* history (not program state)
    closedObjs  \* the objects on which a close() has run to its end

descVars == <<kind, ofd, ocontrol, fdOpen, fdmap, events, wbuf, shut,
              closing, tearing, items, closedObjs>>

\* The loop of Controller.run() between its two _dispatch passes
\* (asyn/controller.py).
VARIABLES
    lpc,        \* where run() is besides tpc: "periodic" in the periodic
                \* callout, "poll" at the poll step, "blocked" in select(),
                \* "io" in the I/O callbacks, "raised" when an exception has
                \* ended run(), "none" elsewhere
    deadline,   \* when the timeout given to select() ends (None: no timeout)
    wants,      \* some object of the map wants read or write
    err         \* the exception that ended run()

loopVars == <<lpc, deadline, wants, err>>

\* A Scannable with a Regex scanner (asyn/scan.py).
VARIABLES
    scanner,    \* Scannable.scan: the rule list of a Regex (<<>>: None)
    rbuf,       \* Scannable._rbuf
    delivered,  \* the contexts called out by the scanner, in order
    \* history (not program state)
    chunks      \* the data of the _scan calls made so far, in order

scanVars == <<scanner, rbuf, delivered, chunks>>

\* A Scannable with a ByteLimit scanner (asyn/scan.py).
VARIABLES
    blLimit,    \* ByteLimit._limit (None before the ByteLimit is made)
    blThresh,   \* ByteLimit._threshold
    blDelivered,\* ByteLimit._delivered
    blRbuf,     \* the length of Scannable._rbuf
    blpc,       \* "idle", or "scanning" inside the loop of _scan
    \* history (not program state)
    blFed,      \* bytes given to _scan so far
    blSent,     \* bytes called out in limit-data contexts so far
    blReached   \* number of limit-reached contexts called out so far

limitVars == <<blLimit, blThresh, blDelivered, blRbuf, blpc, blFed, blSent,
               blReached>>

\* The I/O callbacks of one pass of Controller.run() (asyn/controller.py),
\* and Connectors (asyn/resolve.py).
VARIABLES
    keep,       \* keep[o]: IO._keep_file of object o
    asserted,   \* the assertion of Controller.insert has failed
    reads,      \* the objects select() returned as readable ({}: no batch)
    writes,     \* ... and as writable
    rdone,      \* the objects of reads that the loop of run() has passed
    wdone,      \* ... and those of writes
    \* history (not program state)
    served,     \* <<o, "read">>: run() has called o._can_read() in this batch
    gone        \* the objects closed by a callback of this batch

batchVars == <<keep, asserted, reads, writes, rdone, wdone, served, gone>>

\* A Datagram (asyn/selectable.py).
VARIABLES
    dgScan,     \* Datagram.scan: the rules of its Regex, <<>> for None
    dgQueue,    \* Datagram._wqueue: the (data, addr) packets to send
    dgOut,      \* the contexts its observers were called with, in order
    dgRecv,     \* the packets recvfrom has returned, in order
    dgWire,     \* the sendto calls made, in order, with what each returned
    dgRaised    \* the exception that has left _can_write ("" for none)

dgVars == <<dgScan, dgQueue, dgOut, dgRecv, dgWire, dgRaised>>

\* A ChunkedCoder that writes, and one that reads what was written
\* (asyn/http_chunk.py).
VARIABLES
    chWrites,   \* the data of the write() calls made, in order
    chWire,     \* the bytes given to upstream.write, in order
    chFlushed,  \* write_flush() was called
    chFed,      \* the bytes of chWire that have come in as RAW so far
    chPending,  \* ChunkedCoder._pending (<<>> for None and for '')
    chRemain,   \* ChunkedCoder._remain
    chOut,      \* the contexts called out downstream, in order
    chRaised    \* the exception that has left incoming ("" for none)

chunkVars ==
    <<chWrites, chWire, chFlushed, chFed, chPending, chRemain, chOut,
      chRaised>>

\* A GZipCoder that writes, and one that reads what was written
\* (asyn/zfilter.py).
VARIABLES
    gzWrites,   \* the data of the write() calls made, in order
    gzZw,       \* GZipCoder._zw of the writer: is there a compressobj
    gzWire,     \* what was given to upstream.write, in order
    gzFlushed,  \* write_flush() was called
    gzFed,      \* how much of gzWire has come in as RAW so far
    gzZr,       \* GZipCoder._zr of the reader: "None", or where the
                \* decompressobj is in its stream
    gzEnded,    \* END has come in
    gzOut,      \* the contexts called out downstream, in order
    gzRaised    \* the exception that has left incoming ("" for none)

gzVars ==
    <<gzWrites, gzZw, gzWire, gzFlushed, gzFed, gzZr, gzEnded, gzOut,
      gzRaised>>

\* The bytes a Stream writes (asyn/selectable.py).
VARIABLES
    swBuf,      \* Stream._wbuf
    swShutdown, \* Stream._shutdown
    swOpen,     \* the Stream has not been closed
    swOut,      \* the contexts its observers were called with, in order
    \* history (not program state)
    swArgs,     \* the arguments of the write() calls, one after the other
    swAccepted, \* the bytes os.write has taken, in order
    swLast      \* what the last call of os.write did

swVars == <<swBuf, swShutdown, swOpen, swOut, swArgs, swAccepted, swLast>>

\* A Scannable whose scanner is replaced (asyn/scan.py).
VARIABLES
    xScan,      \* Scannable.scan: the rules of its Regex, <<>> for None
    xRbuf,      \* Scannable._rbuf
    xOut,       \* the contexts called out, in order, each with the scanner
                \* that made it and the _scan call it was made in
    xPasses     \* the _scan calls made so far

swapVars == <<xScan, xRbuf, xOut, xPasses>>

\* FilterCallables over a Stream (asyn/selectable.py).  Node 1 is the
\* Stream, the other nodes are filters.
VARIABLES
    fUp,        \* fUp[f]: FilterCallable.upstream of filter f (0 for None)
    fCb,        \* fCb[n]: Callable._callbacks of node n: the filters whose
                \* incoming is registered there, 0 for another observer
    fOpen,      \* the Stream has its control (it is in the descriptor map)
    fFile,      \* the I/O object of the Stream is open
    \* history (not program state)
    fBy,        \* fBy[f]: how filter f was attached: "open", "insert", ""
    fGot,       \* fGot[f]: the contexts incoming of filter f was called with
    fSent,      \* fSent[n]: the contexts node n has called out
    fClosed,    \* the filter close() was called on last (0 for none)
    fCloses     \* number of close() calls made by user code

filterVars == <<fUp, fCb, fOpen, fFile, fBy, fGot, fSent, fClosed, fCloses>>

\* A TCPListener and its Listeners (asyn/resolve.py).
VARIABLES
    lBound,     \* the address records TCPListener.listeners has a Listener for
    lHooks,     \* lHooks[res]: how often _accept is in that Listener's callbacks
    lActive,    \* TCPListener.active
    \* history (not program state)
    lAccepts,   \* 'accept' contexts the TCPListener has called out
    lCalls      \* listen(), accepting() and close() calls made so far

listenVars == <<lBound, lHooks, lActive, lAccepts, lCalls>>

\* One Stream, its closes counted (asyn/selectable.py).
VARIABLES
    ioKind,     \* what IO.io is: "int" (wrapped in _IOW), "file", or "none"
                \* before the Stream is constructed
    ioControl,  \* Selectable.control is set
    ioShut,     \* Stream._shutdown
    ioPend,     \* Stream._wbuf is not empty
    ioFile,     \* the file object has not been closed
    ioRaised,   \* the exception that has left a call ("" for none)
    \* history (not program state)
    ioCloses,   \* CLOSE contexts called out
    ioRemoves,  \* Controller.remove calls that took the Stream off the map
    ioOsCloses, \* closes of the OS descriptor
    ioCalls     \* calls made on the Stream so far

ioVars ==
    <<ioKind, ioControl, ioShut, ioPend, ioFile, ioRaised, ioCloses,
      ioRemoves, ioOsCloses, ioCalls>>

vars ==
    <<timerVars, cbVars, injVars, connVars, icVars, descVars,
      loopVars, scanVars, limitVars, batchVars, dgVars, chunkVars,
      gzVars, swVars, swapVars, filterVars, listenVars, ioVars>>

\* What the actions of one part leave unchanged: the other parts. The timer
\* actions are steps of run() too: the step that takes one of them says
\* what it does to loopVars.
exceptTimer ==
    <<cbVars, injVars, connVars, icVars, descVars, scanVars,
      limitVars, batchVars, dgVars, chunkVars, gzVars, swVars,
      swapVars, filterVars, listenVars, ioVars>>
exceptCallable ==
    <<timerVars, injVars, connVars, icVars, descVars, loopVars,
      scanVars, limitVars, batchVars, dgVars, chunkVars, gzVars,
      swVars, swapVars, filterVars, listenVars, ioVars>>
exceptInject ==
    <<timerVars, cbVars, connVars, icVars, descVars, loopVars,
      scanVars, limitVars, batchVars, dgVars, chunkVars, gzVars,
      swVars, swapVars, filterVars, listenVars, ioVars>>
exceptConnector ==
    <<timerVars, cbVars, injVars, icVars, descVars, loopVars,
      scanVars, limitVars, batchVars, dgVars, chunkVars, gzVars,
      swVars, swapVars, filterVars, listenVars, ioVars>>
exceptDesc ==
    <<timerVars, cbVars, injVars, connVars, icVars, loopVars,
      scanVars, limitVars, batchVars, dgVars, chunkVars, gzVars,
      swVars, swapVars, filterVars, listenVars, ioVars>>
exceptScan ==
    <<timerVars, cbVars, injVars, connVars, icVars, descVars,
      loopVars, limitVars, batchVars, dgVars, chunkVars, gzVars,
      swVars, swapVars, filterVars, listenVars, ioVars>>
exceptLimit ==
    <<timerVars, cbVars, injVars, connVars, icVars, descVars,
      loopVars, scanVars, batchVars, dgVars, chunkVars, gzVars,
      swVars, swapVars, filterVars, listenVars, ioVars>>
exceptBatch ==
    <<timerVars, cbVars, injVars, connVars, icVars, descVars,
      loopVars, scanVars, limitVars, dgVars, chunkVars, gzVars,
      swVars, swapVars, filterVars, listenVars, ioVars>>
exceptDgram ==
    <<timerVars, cbVars, injVars, connVars, icVars, descVars,
      loopVars, scanVars, limitVars, batchVars, chunkVars, gzVars,
      swVars, swapVars, filterVars, listenVars, ioVars>>
exceptChunk ==
    <<timerVars, cbVars, injVars, connVars, icVars, descVars,
      loopVars, scanVars, limitVars, batchVars, dgVars, gzVars,
      swVars, swapVars, filterVars, listenVars, ioVars>>
exceptGZip ==
    <<timerVars, cbVars, injVars, connVars, icVars, descVars,
      loopVars, scanVars, limitVars, batchVars, dgVars, chunkVars,
      swVars, swapVars, filterVars, listenVars, ioVars>>
exceptWrite ==
    <<timerVars, cbVars, injVars, connVars, icVars, descVars,
      loopVars, scanVars, limitVars, batchVars, dgVars, chunkVars,
      gzVars, swapVars, filterVars, listenVars, ioVars>>
exceptSwap ==
    <<timerVars, cbVars, injVars, connVars, icVars, descVars,
      loopVars, scanVars, limitVars, batchVars, dgVars, chunkVars,
      gzVars, swVars, filterVars, listenVars, ioVars>>
exceptFilter ==
    <<timerVars, cbVars, injVars, connVars, icVars, descVars,
      loopVars, scanVars, limitVars, batchVars, dgVars, chunkVars,
      gzVars, swVars, swapVars, listenVars, ioVars>>
exceptListen ==
    <<timerVars, cbVars, injVars, connVars, icVars, descVars,
      loopVars, scanVars, limitVars, batchVars, dgVars, chunkVars,
      gzVars, swVars, swapVars, filterVars, ioVars>>
exceptIo ==
    <<timerVars, cbVars, injVars, connVars, icVars, descVars,
      loopVars, scanVars, limitVars, batchVars, dgVars, chunkVars,
      gzVars, swVars, swapVars, filterVars, listenVars>>
\* ... and what the actions that belong to several parts leave unchanged.
exceptCallout ==
    <<cbVars, connVars, descVars, loopVars, scanVars, limitVars,
      batchVars, dgVars, chunkVars, gzVars, swVars, swapVars,
      filterVars, listenVars, ioVars>>
exceptHandler ==
    <<timerVars, cbVars, injVars, connVars, icVars, loopVars,
      scanVars, limitVars, dgVars, chunkVars, gzVars, swVars,
      swapVars, filterVars, listenVars, ioVars>>
exceptLoop ==
    <<injVars, connVars, icVars, loopVars, scanVars, limitVars,
      batchVars, dgVars, chunkVars, gzVars, swVars, swapVars,
      filterVars, listenVars, ioVars>>

(***************************************************************************)
(*                    PART 1: timers (asyn/controller.py)                  *)
(***************************************************************************)

\* Bounds of the timer model.
MaxTimers == 4      \* Scheduled objects that can be created
MaxReTimers == 1    \* ... where Scheduled objects are scheduled again
MaxTime == 2        \* the clock runs from 0 to MaxTime
MaxQueue == 2       \* ... and entries the timer queue can hold there
MaxLoopTimers == 3  \* Scheduled objects created where the whole loop runs
\* Controller.TIMERLIMIT is a class attribute (1000 by default); the model
\* runs with a small limit so that a dispatch pass can reach it.
TIMERLIMIT == 2

Timers == 1 .. MaxTimers
Times == 0 .. MaxTime


\* The Ctx of a timer callout: the fields Ctx.reschedule reads.
NoCtx == [sched |-> 0, when |-> None]

\* base[t] = [exp, n]: timer t was dispatched for some fire time and has
\* since been rescheduled by ctx.reschedule(after=) in n callouts in a row;
\* exp is that first fire time plus the n delays. NoBase when the timer's
\* fire time was last set in another way.
NoBase == [exp |-> None, n |-> 0]

\* Python 2 cmp() on fire times: None sorts below every number.
Cmp(x, y) ==
    IF x = y THEN 0
    ELSE IF x = None THEN -1
    ELSE IF y = None THEN 1
    ELSE IF x < y THEN -1 ELSE 1

\* Scheduled.__cmp__ as heapq uses it: a < b.
SchedLt(w, a, b) == Cmp(w[a], w[b]) < 0

\* heapq._siftdown(heap, startpos, pos), positions counted from 0.
RECURSIVE SiftDown(_, _, _, _, _)
SiftDown(heap, w, newitem, startpos, pos) ==
    IF pos > startpos
    THEN LET parentpos == (pos - 1) \div 2
             parent == heap[parentpos + 1]
         IN  IF SchedLt(w, newitem, parent)
             THEN SiftDown([heap EXCEPT ![pos + 1] = parent], w, newitem,
                           startpos, parentpos)
             ELSE [heap EXCEPT ![pos + 1] = newitem]
    ELSE [heap EXCEPT ![pos + 1] = newitem]

\* heapq._siftup(heap, pos): bubble the smaller child up to a leaf, then
\* sift the displaced item down from there.
RECURSIVE SiftUp(_, _, _, _)
SiftUp(heap, w, newitem, pos) ==
    LET endpos == Len(heap)
        childpos == 2 * pos + 1
        rightpos == childpos + 1
        c == IF rightpos < endpos
                /\ ~SchedLt(w, heap[childpos + 1], heap[rightpos + 1])
             THEN rightpos ELSE childpos
    IN  IF childpos < endpos
        THEN SiftUp([heap EXCEPT ![pos + 1] = heap[c + 1]], w, newitem, c)
        ELSE SiftDown(heap, w, newitem, 0, pos)

\* heapq.heappush(heap, item)
heappush(heap, w, item) ==
    SiftDown(Append(heap, item), w, item, 0, Len(heap))

\* heapq.heappop(heap): the heap that is left (the item returned is heap[0]).
heappop(heap, w) ==
    LET lastelt == heap[Len(heap)]
        rest == SubSeq(heap, 1, Len(heap) - 1)
    IN  IF rest = <<>> THEN rest
        ELSE SiftUp([rest EXCEPT ![1] = lastelt], w, lastelt, 0)

\* The fire time Controller.schedule computes from at= and after=.
ScheduleWhen(at, after) ==
    IF at # None THEN at
    ELSE IF after # None THEN now + after
    ELSE now

\* The timers of the queue that are pending (not cancelled).
Pending == {schedq[i] : i \in 1 .. Len(schedq)} \ {t \in Timers : when[t] = None}

TimerInit ==
    /\ when = [t \in Timers |-> None]
    /\ schedq = <<>>
    /\ nTimers = 0
    /\ now = 0
    /\ running = FALSE
    /\ tpc = "idle"
    /\ backstop = 0
    /\ ctx = NoCtx
    /\ base = [t \in Timers |-> NoBase]
    /\ firedFor = NoBase
    /\ overtaken = {}

\* User code runs on the reactor thread: before run(), inside a timer
\* callout, and inside the I/O callbacks that follow select().
InUserCode == tpc \in {"idle", "select"} \/ ctx # NoCtx

\* time.time() moves on at any point of the program.
Tick ==
    /\ now < MaxTime
    /\ now' = now + 1
    /\ UNCHANGED <<when, schedq, nTimers, running, tpc, backstop, ctx,
                   base, overtaken, firedFor>>
    /\ UNCHANGED exceptTimer

\* The body of Controller.schedule once the entity is at hand:
\* entity.when = when (for a new Scheduled, its constructor), then heappush.
Push(e, w) ==
    /\ when' = [when EXCEPT ![e] = w]
    /\ schedq' = heappush(schedq, when', e)
    /\ overtaken' = overtaken \ {e}

\* Controller.schedule(callable, at=, after=): a new Scheduled object.
Schedule(at, after) ==
    /\ InUserCode
    /\ nTimers < MaxTimers
    /\ ScheduleWhen(at, after) \in Times
    /\ nTimers' = nTimers + 1
    /\ Push(nTimers + 1, ScheduleWhen(at, after))
    /\ UNCHANGED <<now, running, tpc, backstop, ctx, base, firedFor>>
    /\ UNCHANGED exceptTimer

\* Controller.schedule(entity, at=, after=) with an existing Scheduled.
ScheduleExisting(e, at, after) ==
    /\ InUserCode
    /\ e \in 1 .. nTimers
    /\ Len(schedq) < MaxQueue
    /\ ScheduleWhen(at, after) \in Times
    /\ Push(e, ScheduleWhen(at, after))
    /\ base' = [base EXCEPT ![e] = NoBase]
    /\ UNCHANGED <<nTimers, now, running, tpc, backstop, ctx, firedFor>>
    /\ UNCHANGED exceptTimer

\* Scheduled.cancel()
Cancel(e) ==
    /\ InUserCode
    /\ e \in 1 .. nTimers
    /\ when' = [when EXCEPT ![e] = None]
    /\ overtaken' = overtaken \ {e}
    /\ UNCHANGED <<schedq, nTimers, now, running, tpc, backstop, ctx, base, firedFor>>
    /\ UNCHANGED exceptTimer

\* The fire time Ctx.reschedule(after=) asks for, from the context c:
\* schedule(sched, at=c.when + after), not schedule(sched, after=after).
RescheduleFromNow(c, after) == now + after
RescheduleAfter(c, after) == c.when + after

\* Ctx.reschedule(at=, after=), called by the timer's callout on its context.
CtxReschedule(at, after) ==
    /\ ctx # NoCtx
    /\ Len(schedq) < MaxQueue
    /\ IF at # None /\ at # 0
       THEN /\ at \in Times
            /\ Push(ctx.sched, at)
            /\ base' = [base EXCEPT ![ctx.sched] = NoBase]
       ELSE /\ after # None /\ after # 0
            /\ RescheduleAfter(ctx, after) \in Times
            /\ Push(ctx.sched, RescheduleAfter(ctx, after))
            /\ base' = [base EXCEPT ![ctx.sched] =
                           [exp |-> firedFor.exp + after, n |-> firedFor.n + 1]]
    /\ UNCHANGED <<nTimers, now, running, tpc, backstop, ctx, firedFor>>
    /\ UNCHANGED exceptTimer

\* Controller.run() is entered: running = True, the first pass of the loop.
Run ==
    /\ tpc = "idle"
    /\ ~running
    /\ running' = TRUE
    /\ tpc' = "dispatch1"
    /\ backstop' = TIMERLIMIT
    /\ UNCHANGED <<when, schedq, nTimers, now, ctx, base, overtaken, firedFor>>
    /\ UNCHANGED exceptTimer

\* Controller.stop(), from user code on the reactor thread.
Stop ==
    /\ InUserCode
    /\ running
    /\ running' = FALSE
    /\ UNCHANGED <<when, schedq, nTimers, now, tpc, backstop, ctx, base,
                   overtaken, firedFor>>
    /\ UNCHANGED exceptTimer

\* Where run() goes when a _dispatch pass returns.
AfterPass == IF tpc = "dispatch1" THEN "select"
             ELSE IF running THEN "dispatch1" ELSE "idle"

\* top.when is None: the entry at the head was cancelled.
NeverCancelled(t) == FALSE
WasCancelled(t) == when[t] = None

\* One iteration of the while loop of Controller._dispatch.
Dispatch ==
    /\ tpc \in {"dispatch1", "dispatch2"}
    /\ ctx = NoCtx
    /\ IF ~(running /\ schedq # <<>>) \/ backstop - 1 < 0
       THEN \* the loop ends, or the backstop returns
            /\ tpc' = AfterPass
            /\ backstop' = TIMERLIMIT
            /\ UNCHANGED <<schedq, ctx, firedFor, overtaken>>
       ELSE LET top == schedq[1] IN
            IF WasCancelled(top)
            THEN \* was cancelled: get rid of it
                 /\ schedq' = heappop(schedq, when)
                 /\ backstop' = backstop - 1
                 /\ UNCHANGED <<tpc, ctx, firedFor, overtaken>>
            ELSE IF when[top] > now
            THEN \* queue top not ready: break
                 /\ tpc' = AfterPass
                 /\ backstop' = TIMERLIMIT
                 /\ UNCHANGED <<schedq, ctx, firedFor, overtaken>>
            ELSE \* pop it and call it out with a Ctx
                 /\ schedq' = heappop(schedq, when)
                 /\ backstop' = backstop - 1
                 /\ ctx' = [sched |-> top, when |-> when[top]]
                 /\ firedFor' = IF base[top].exp # None THEN base[top]
                                ELSE [exp |-> when[top], n |-> 0]
                 /\ overtaken' = (overtaken \ {top}) \cup
                        {t \in Pending \ {top} : when[t] < when[top]}
                 /\ UNCHANGED tpc
    /\ UNCHANGED <<when, nTimers, now, running, base>>
    /\ UNCHANGED exceptTimer

\* The timer's callout returns to _dispatch.
CalloutReturn ==
    /\ ctx # NoCtx
    /\ ctx' = NoCtx
    /\ firedFor' = NoBase
    /\ UNCHANGED <<when, schedq, nTimers, now, running, tpc, backstop,
                   base, overtaken>>
    /\ UNCHANGED exceptTimer

\* select() and the I/O callbacks are over: run() goes to its second pass.
SelectDone ==
    /\ tpc = "select"
    /\ tpc' = "dispatch2"
    /\ UNCHANGED <<when, schedq, nTimers, now, running, backstop, ctx,
                   base, overtaken, firedFor>>
    /\ UNCHANGED exceptTimer

\* The at= and after= arguments of a call: a caller gives at most one.
TimerArgs == {<<at, after>> \in (Times \cup {None}) \X (Times \cup {None}) :
                 at = None \/ after = None}

\* New timers and cancellations only.
FreshTimerStep ==
    \/ Tick /\ UNCHANGED loopVars
    \/ \E a \in TimerArgs : Schedule(a[1], a[2]) /\ UNCHANGED loopVars
    \/ \E e \in Timers : Cancel(e) /\ UNCHANGED loopVars
    \/ Run /\ UNCHANGED loopVars
    \/ Stop /\ UNCHANGED loopVars
    \/ Dispatch /\ UNCHANGED loopVars
    \/ CalloutReturn /\ UNCHANGED loopVars
    \/ SelectDone /\ UNCHANGED loopVars

TimerStep ==
    \/ Tick /\ UNCHANGED loopVars
    \/ \E a \in TimerArgs :
          /\ nTimers < MaxReTimers /\ Len(schedq) < MaxQueue
          /\ Schedule(a[1], a[2]) /\ UNCHANGED loopVars
    \/ \E e \in Timers : Cancel(e) /\ UNCHANGED loopVars
    \/ Run /\ UNCHANGED loopVars
    \/ Stop /\ UNCHANGED loopVars
    \/ Dispatch /\ UNCHANGED loopVars
    \/ CalloutReturn /\ UNCHANGED loopVars
    \/ SelectDone /\ UNCHANGED loopVars
    \/ \E e \in Timers, a \in TimerArgs :
          ScheduleExisting(e, a[1], a[2]) /\ UNCHANGED loopVars
    \/ \E a \in TimerArgs : CtxReschedule(a[1], a[2]) /\ UNCHANGED loopVars

(***************************************************************************)
(*                 PART 2: the callback funnel (asyn/core.py)              *)
(***************************************************************************)

\* Bounds of the funnel model.
MaxObs == 3         \* observers (Python callables) there are
MaxCallbacks == 2   \* registrations the funnel's list can hold

Observers == 1 .. MaxObs

\* What an observer can return: None, a false value (0), two true values.
Values == {None, 0, 1, 2}


\* A callout's return value: one value, or the list of all results.
RetValue(v) == [kind |-> "value", v |-> v, l |-> <<>>]
RetList(l) == [kind |-> "list", v |-> None, l |-> l]

\* Python truth of a value.
Truthy(v) == v # None /\ v # 0

\* The default reducer, lambda a, b: a or b.
OrLast(a, b) == IF Truthy(b) THEN b ELSE a
Or(a, b) == IF Truthy(a) THEN a ELSE b

\* reduce(self._callback_reducer, results, initial)
RECURSIVE Reduce(_, _)
Reduce(rs, initial) ==
    IF rs = <<>> THEN initial ELSE Reduce(Tail(rs), Or(initial, Head(rs)))

\* list.remove(x): the list without the first occurrence of x.
RECURSIVE ListRemove(_, _)
ListRemove(l, x) ==
    IF l = <<>> THEN l
    ELSE IF Head(l) = x THEN Tail(l)
    ELSE <<Head(l)>> \o ListRemove(Tail(l), x)

InList(l, x) == \E i \in 1 .. Len(l) : l[i] = x

\* The list callout() walks through: the copy it latched on entry.
Live == callbacks
Iterated == latched

CallableInit ==
    /\ callbacks = <<>>
    /\ reducer = "or"
    /\ cpc = "idle"
    /\ latched = <<>>
    /\ idx = 0
    /\ results = <<>>
    /\ ret = RetValue(None)
    /\ atStart = <<>>
    /\ calledSeq = <<>>
    /\ removedDue = FALSE

\* Registrations change between callouts, or in an observer that callout()
\* is calling.
MayRegister == cpc = "idle" \/ (cpc = "emitting" /\ idx > 0)

\* History of a change of the list from l to l2 made during an emit.
Noted(l2) ==
    removedDue' = (removedDue \/ (cpc = "emitting" /\
            \E i \in idx + 1 .. Len(atStart) :
                InList(callbacks, atStart[i]) /\ ~InList(l2, atStart[i])))

\* Callable.set_callout(callee); callee 0 stands for None.
SetCallout(c) ==
    /\ MayRegister
    /\ callbacks' = IF c # 0 THEN <<c>> ELSE <<>>
    /\ Noted(callbacks')
    /\ UNCHANGED <<reducer, cpc, latched, idx, results, ret, atStart, calledSeq>>
    /\ UNCHANGED exceptCallable

\* Callable.add_callout(callee)
AddCallout(c) ==
    /\ MayRegister
    /\ Len(callbacks) < MaxCallbacks
    /\ callbacks' = Append(callbacks, c)
    /\ Noted(callbacks')
    /\ UNCHANGED <<reducer, cpc, latched, idx, results, ret, atStart, calledSeq>>
    /\ UNCHANGED exceptCallable

\* Callable.remove_callout(callee) of a registered callee.
RemoveCallout(c) ==
    /\ MayRegister
    /\ InList(callbacks, c)
    /\ callbacks' = ListRemove(callbacks, c)
    /\ Noted(callbacks')
    /\ UNCHANGED <<reducer, cpc, latched, idx, results, ret, atStart, calledSeq>>
    /\ UNCHANGED exceptCallable

\* Callable.set_callout_reduce(reducer)
SetCalloutReduce(r) ==
    /\ MayRegister
    /\ reducer # r
    /\ reducer' = r
    /\ UNCHANGED <<callbacks, cpc, latched, idx, results, ret, atStart,
                   calledSeq, removedDue>>
    /\ UNCHANGED exceptCallable

\* Callable.callout(ctx) is entered: the callback list is latched.
Callout ==
    /\ cpc = "idle"
    /\ cpc' = "emitting"
    /\ latched' = callbacks
    /\ idx' = 0
    /\ results' = <<>>
    /\ atStart' = callbacks
    /\ calledSeq' = <<>>
    /\ removedDue' = FALSE
    /\ UNCHANGED <<callbacks, reducer, ret>>
    /\ UNCHANGED exceptCallable

\* callout() calls the next observer of its list, which returns v.
CallObserver(v) ==
    /\ cpc = "emitting"
    /\ idx < Len(Iterated)
    /\ idx' = idx + 1
    /\ results' = Append(results, v)
    /\ calledSeq' = Append(calledSeq, Iterated[idx + 1])
    /\ UNCHANGED <<callbacks, reducer, cpc, latched, ret, atStart, removedDue>>
    /\ UNCHANGED exceptCallable

\* callout() has called its whole list and returns the reduced results.
Reduced ==
    /\ cpc = "emitting"
    /\ idx >= Len(Iterated)
    /\ cpc' = "returned"
    /\ ret' = IF reducer # "None" THEN RetValue(Reduce(results, None))
              ELSE RetList(results)
    /\ UNCHANGED <<callbacks, reducer, latched, idx, results, atStart,
                   calledSeq, removedDue>>
    /\ UNCHANGED exceptCallable

\* The caller has the result; callout()'s locals are gone.
Returned ==
    /\ cpc = "returned"
    /\ cpc' = "idle"
    /\ latched' = <<>>
    /\ idx' = 0
    /\ results' = <<>>
    /\ ret' = RetValue(None)
    /\ atStart' = <<>>
    /\ calledSeq' = <<>>
    /\ removedDue' = FALSE
    /\ UNCHANGED <<callbacks, reducer>>
    /\ UNCHANGED exceptCallable

\* The funnel with registrations changed between callouts only, and
\* observers that return any value.
CallableStep ==
    \/ \E c \in Observers \cup {0} : cpc = "idle" /\ SetCallout(c)
    \/ \E c \in Observers : cpc = "idle" /\ AddCallout(c)
    \/ \E c \in Observers : cpc = "idle" /\ RemoveCallout(c)
    \/ \E r \in {"or", "None"} : cpc = "idle" /\ SetCalloutReduce(r)
    \/ Callout
    \/ \E v \in Values : CallObserver(v)
    \/ Reduced
    \/ Returned

\* The funnel with registrations changed at any time, by observers during
\* a callout too, and observers that return None.
EmitStep ==
    \/ \E c \in Observers \cup {0} : SetCallout(c)
    \/ \E c \in Observers : AddCallout(c)
    \/ \E c \in Observers : RemoveCallout(c)
    \/ \E r \in {"or", "None"} : SetCalloutReduce(r)
    \/ Callout
    \/ CallObserver(None)
    \/ Reduced
    \/ Returned

(***************************************************************************)
(*                PART 3: cross-thread injection (asyn/inject.py)          *)
(***************************************************************************)

\* Bounds of the injection model.
MaxCalls == 3
MaxThreads == 2

\* selectable.BUFSIZE, the most one os.read takes from the pipe.
BUFSIZE == 4096

\* The foreign threads that call inject().
Threads == 1 .. MaxThreads

\* How a queued call can end: it returns, it raises an exception derived
\* from Exception, or it raises one that is not (SystemExit,
\* KeyboardInterrupt).
Endings == {"return", "Exception", "BaseException"}

\* The exception objects a call given to inject_wait may raise.
Errors == {1, 2}

\* What the call given to inject_wait does: it returns a value (None, a
\* false value 0, a true value 1) or raises an exception.
NoOutcome == [kind |-> "none", v |-> None]
Returns(v) == [kind |-> "return", v |-> v]
Raises(e) == [kind |-> "raise", v |-> e]
WaitOutcomes == {Returns(v) : v \in {None, 0, 1}} \cup {Raises(e) : e \in Errors}

InjectInit ==
    /\ iq = <<>>
    /\ nCalls = 0
    /\ pipe = 0
    /\ poster = [t \in Threads |-> "idle"]
    /\ rpc = "select"
    /\ cur = 0
    /\ did = "none"
    /\ wpc = "idle"
    /\ lockHeld = FALSE
    /\ reply = [error |-> None, value |-> None]
    /\ runnerId = 0
    /\ executed = <<>>
    /\ passStart = 0
    /\ late = FALSE
    /\ swallowed = 0
    /\ outcome = NoOutcome
    /\ wret = NoOutcome

\* Controller.run_locally() in a thread that is not the reactor thread:
\* true once run() has ended (_run_thread is None, queue_idle is False).
run_locally == rpc = "crashed"

\* self._q.append(...): the call takes the next rank.
QAppend ==
    /\ nCalls < MaxCalls
    /\ nCalls' = nCalls + 1
    /\ iq' = Append(iq, nCalls + 1)
    /\ late' = (late \/ rpc \in {"drain", "call"})

\* Thread t calls inject(call): the first statement of _Inject.post.
Post(t) ==
    /\ poster[t] = "idle"
    /\ ~run_locally
    /\ QAppend
    /\ poster' = [poster EXCEPT ![t] = "appended"]
    /\ UNCHANGED <<pipe, rpc, cur, did, wpc, lockHeld, reply, runnerId,
                   executed, passStart, swallowed, outcome, wret>>
    /\ UNCHANGED exceptInject

\* Thread t writes the wake-up byte: the second statement of _Inject.post.
Write(t) ==
    /\ poster[t] = "appended"
    /\ poster' = [poster EXCEPT ![t] = "idle"]
    /\ pipe' = pipe + 1
    /\ UNCHANGED <<iq, nCalls, rpc, cur, did, wpc, lockHeld, reply, runnerId,
                   executed, passStart, late, swallowed, outcome, wret>>
    /\ UNCHANGED exceptInject

\* select() reports the pipe readable; _can_read reads the wake-up bytes.
CanRead ==
    /\ rpc = "select"
    /\ pipe > 0
    /\ pipe' = IF pipe > BUFSIZE THEN pipe - BUFSIZE ELSE 0
    /\ rpc' = "drain"
    /\ passStart' = Len(executed)
    /\ late' = FALSE
    /\ UNCHANGED <<iq, nCalls, poster, cur, did, wpc, lockHeld, reply,
                   runnerId, executed, swallowed, outcome, wret>>
    /\ UNCHANGED exceptInject

\* deque.popleft(): the element taken and the elements left.
pop(q) == [item |-> q[Len(q)], rest |-> SubSeq(q, 1, Len(q) - 1)]
popleft(q) == [item |-> Head(q), rest |-> Tail(q)]

\* A drain that takes one call for each wake-up and returns.
DrainOne ==
    /\ rpc = "drain"
    /\ IF iq = <<>> \/ Len(executed) > passStart
       THEN /\ rpc' = "select"
            /\ UNCHANGED <<iq, cur>>
       ELSE /\ rpc' = "call"
            /\ cur' = popleft(iq).item
            /\ iq' = popleft(iq).rest
    /\ UNCHANGED <<nCalls, pipe, poster, did, wpc, lockHeld, reply, runnerId,
                   executed, passStart, late, swallowed, outcome, wret>>
    /\ UNCHANGED exceptInject

\* The head of the drain loop: pop the next call, or return on IndexError.
DrainNext ==
    /\ rpc = "drain"
    /\ IF iq = <<>>
       THEN /\ rpc' = "select"
            /\ UNCHANGED <<iq, cur>>
       ELSE /\ rpc' = "call"
            /\ cur' = popleft(iq).item
            /\ iq' = popleft(iq).rest
    /\ UNCHANGED <<nCalls, pipe, poster, did, wpc, lockHeld, reply, runnerId,
                   executed, passStart, late, swallowed, outcome, wret>>
    /\ UNCHANGED exceptInject

\* "except Exception" around the call: the endings it catches.
CatchesNothing(ending) == FALSE
Caught(ending) == ending = "Exception"

\* The drain executes a call posted by inject(), which ends in some way.
Call(ending) ==
    /\ rpc = "call"
    /\ cur # runnerId
    /\ did' = ending
    /\ swallowed' = IF Caught(ending) THEN cur ELSE swallowed
    /\ executed' = Append(executed, cur)
    /\ cur' = 0
    /\ rpc' = IF ending = "return" \/ Caught(ending) THEN "drain" ELSE "crashed"
    /\ UNCHANGED <<iq, nCalls, pipe, poster, wpc, lockHeld, reply, runnerId,
                   passStart, late, outcome, wret>>
    /\ UNCHANGED exceptInject

\* A thread calls inject_wait(call): it makes cond and reply, takes the
\* lock and, inside inject(runner), appends runner to the queue.
InjectWait ==
    /\ wpc = "idle"
    /\ ~run_locally
    /\ QAppend
    /\ runnerId' = nCalls + 1
    /\ reply' = [error |-> None, value |-> None]
    /\ lockHeld' = TRUE
    /\ wpc' = "appended"
    /\ UNCHANGED <<pipe, poster, rpc, cur, did, executed, passStart,
                   swallowed, outcome, wret>>
    /\ UNCHANGED exceptInject

\* inject(runner) writes the wake-up byte and returns into inject_wait.
WaitWrite ==
    /\ wpc = "appended"
    /\ pipe' = pipe + 1
    /\ wpc' = "check"
    /\ UNCHANGED <<iq, nCalls, poster, rpc, cur, did, lockHeld, reply,
                   runnerId, executed, passStart, late, swallowed, outcome, wret>>
    /\ UNCHANGED exceptInject

\* The condition of inject_wait's while loop.
Replied(r) == ~(r.error = None /\ r.value = None)

\* inject_wait tests its loop condition, holding the lock: it goes into
\* cond.wait(), which releases the lock, or leaves the loop and the with
\* block and raises reply['error'] or returns reply['value'].
WaitCheck ==
    /\ wpc = "check"
    /\ lockHeld' = FALSE
    /\ IF ~Replied(reply)
       THEN /\ wpc' = "waiting"
            /\ UNCHANGED wret
       ELSE /\ wpc' = "done"
            /\ wret' = IF Truthy(reply.error) THEN Raises(reply.error)
                       ELSE Returns(reply.value)
    /\ UNCHANGED <<iq, nCalls, pipe, poster, rpc, cur, did, reply, runnerId,
                   executed, passStart, late, outcome, swallowed>>
    /\ UNCHANGED exceptInject

\* The drain executes inject_wait's runner: it takes the lock, makes the
\* call, stores the value or the exception, notifies cond and releases
\* the lock.  runner itself returns normally.
Runner(o) ==
    /\ rpc = "call"
    /\ cur = runnerId
    /\ ~lockHeld
    /\ reply' = IF o.kind = "return" THEN [reply EXCEPT !.value = o.v]
                ELSE [reply EXCEPT !.error = o.v]
    /\ wpc' = IF wpc = "waiting" THEN "woken" ELSE wpc
    /\ outcome' = o
    /\ did' = "return"
    /\ executed' = Append(executed, cur)
    /\ cur' = 0
    /\ rpc' = "drain"
    /\ UNCHANGED <<iq, nCalls, pipe, poster, lockHeld, runnerId, passStart,
                   late, wret, swallowed>>
    /\ UNCHANGED exceptInject

\* cond.wait() was notified: it takes the lock again and returns.
WaitWake ==
    /\ wpc = "woken"
    /\ ~lockHeld
    /\ lockHeld' = TRUE
    /\ wpc' = "check"
    /\ UNCHANGED <<iq, nCalls, pipe, poster, rpc, cur, did, reply, runnerId,
                   executed, passStart, late, swallowed, outcome, wret>>
    /\ UNCHANGED exceptInject

\* The reactor thread and the threads that inject into it.
InjectStep ==
    \/ \E t \in Threads : Post(t)
    \/ \E t \in Threads : Write(t)
    \/ CanRead
    \/ DrainNext
    \/ \E ending \in Endings : Call(ending)
    \/ InjectWait
    \/ WaitWrite
    \/ WaitCheck
    \/ \E o \in WaitOutcomes : Runner(o)
    \/ WaitWake

(***************************************************************************)
(*            PART 4: the TCP connector (asyn/resolve.py)                  *)
(***************************************************************************)

\* Bounds of the connector model.
MaxCandidates == 3
MaxCloses == 1

\* How the connect of a candidate goes: connect() raises an error other
\* than EINPROGRESS; the socket's SO_ERROR is set when it becomes writable;
\* or SO_ERROR is clear then and the socket is connected.
Attempts == {"syncfail", "asyncfail", "connects"}

\* The candidate lists of n candidates at most.
RECURSIVE Lists(_)
Lists(n) ==
    IF n = 0 THEN {<<>>}
    ELSE Lists(n - 1) \cup
         {Append(l, a) : l \in {m \in Lists(n - 1) : Len(m) = n - 1}, a \in Attempts}

\* The events a TCPConnector calls out.  The Connector of a candidate, its
\* socket and its error are all named by the candidate's rank in res.
Error(e) == [state |-> "ERROR", v |-> e]
Connected(k) == [state |-> "connected", v |-> k]
CANCELLED == [state |-> "CANCELLED", v |-> 0]

ConnectorInit ==
    /\ res = <<>>
    /\ tstate = "new"
    /\ candidates = <<>>
    /\ connector = 0
    /\ lasterror = 0
    /\ tcontrol = FALSE
    /\ cmap = {}
    /\ emitted = <<>>
    /\ nCloses = 0
    /\ closedAt = 0

\* The fields that _schedule and the callouts under it read and write.
Fields ==
    [res |-> res, candidates |-> candidates, connector |-> connector,
     lasterror |-> lasterror, control |-> tcontrol, cmap |-> cmap,
     emitted |-> emitted]

Become(t) ==
    /\ res' = t.res
    /\ candidates' = t.candidates
    /\ connector' = t.connector
    /\ lasterror' = t.lasterror
    /\ tcontrol' = t.control
    /\ cmap' = t.cmap
    /\ emitted' = t.emitted

\* self._lasterror = ctx.error, in _connected.
FirstError(old, e) == IF old = 0 THEN e ELSE old
LastError(old, e) == e

\* TCPConnector._schedule().  With no candidate left it calls out the last
\* error.  Otherwise it pops a candidate and constructs its Connector k,
\* which inserts itself in the Controller.  If connect() fails at once, the
\* Connector's constructor calls out the error to _connected, which keeps
\* the error and calls _schedule() again, and only then closes the
\* Connector; the constructor returns, and self.connector is assigned.
RECURSIVE _schedule(_)
_schedule(t) ==
    IF t.candidates = <<>>
    THEN [t EXCEPT !.control = FALSE,
                   !.emitted = Append(@, Error(t.lasterror))]
    ELSE LET k == Len(t.res) - Len(t.candidates) + 1
             t1 == [t EXCEPT !.candidates = Tail(@), !.cmap = @ \cup {k}]
         IN  IF Head(t.candidates) = "syncfail"
             THEN LET t2 == _schedule([t1 EXCEPT !.lasterror = LastError(@, k)])
                  IN  [t2 EXCEPT !.cmap = @ \ {k}, !.connector = k]
             ELSE [t1 EXCEPT !.connector = k]

\* TCPConnector.__init__(control, res, callout), with one candidate at
\* least.
Construct(l) ==
    /\ tstate = "new"
    /\ tstate' = "built"
    /\ Become(_schedule([Fields EXCEPT !.res = l, !.candidates = l,
                                       !.control = TRUE, !.lasterror = 0]))
    /\ UNCHANGED <<nCloses, closedAt>>
    /\ UNCHANGED exceptConnector

\* TCPConnector._connected(ctx, result), called out by Connector k with an
\* error, or with 'connected'.  (It ignores the CLOSE of Selectable.close.)
_connected(t, k, error) ==
    IF error
    THEN _schedule([t EXCEPT !.lasterror = LastError(@, k)])
    ELSE [t EXCEPT !.connector = 0, !.emitted = Append(@, Connected(k))]

\* select() reports the socket of Connector k writable: Connector._can_write
\* closes the Connector, which removes it from the Controller, and calls out
\* the error of the socket, or 'connected'.
_can_write(k) ==
    /\ tstate = "built"
    /\ k \in cmap
    /\ Become(_connected([Fields EXCEPT !.cmap = @ \ {k}], k,
                         res[k] = "asyncfail"))
    /\ UNCHANGED <<tstate, nCloses, closedAt>>
    /\ UNCHANGED exceptConnector

\* TCPConnector.close(): if self.connector is set, it closes that Connector
\* (which removes it from the Controller if it is still there), clears
\* self.connector and calls out CANCELLED.
Close ==
    /\ tstate = "built"
    /\ nCloses < MaxCloses
    /\ nCloses' = nCloses + 1
    /\ IF connector # 0
       THEN /\ cmap' = cmap \ {connector}
            /\ connector' = 0
            /\ emitted' = Append(emitted, CANCELLED)
       ELSE UNCHANGED <<cmap, connector, emitted>>
    /\ closedAt' = IF closedAt = 0 /\ cmap # {} THEN Len(emitted) + 1
                   ELSE closedAt
    /\ UNCHANGED <<res, tstate, candidates, lasterror, tcontrol>>
    /\ UNCHANGED exceptConnector

ConnectorStep ==
    \/ \E l \in Lists(MaxCandidates) \ {<<>>} : Construct(l)
    \/ \E k \in 1 .. MaxCandidates : _can_write(k)
    \/ Close

(***************************************************************************)
(*     PART 5: inject_callout and the reactor loop (asyn/inject.py)        *)
(***************************************************************************)

\* The timeouts given to inject_callout: none, or a number of seconds.
Timeouts == {None, 0, 1}

CalloutInit ==
    /\ icpc = "idle"
    /\ icLock = FALSE
    /\ icReply = "None"
    /\ icTimer = 0
    /\ icCall = 0
    /\ icRet = "none"

\* run() is executing in the reactor thread (_run_thread is set).
Running == tpc # "idle"

\* A thread that is not the reactor's calls inject_callout(call, timeout):
\* it makes cond and reply and, when a timeout is given, calls
\* self.schedule(catch_timeout, after=timeout) itself.
InjectCallout(timeout) ==
    /\ icpc = "idle"
    /\ Running
    /\ icpc' = "scheduled"
    /\ icReply' = "None"
    /\ IF timeout # None
       THEN /\ nTimers < MaxTimers
            /\ ScheduleWhen(None, timeout) \in Times
            /\ nTimers' = nTimers + 1
            /\ Push(nTimers + 1, ScheduleWhen(None, timeout))
            /\ icTimer' = nTimers + 1
       ELSE /\ icTimer' = 0
            /\ UNCHANGED <<when, schedq, nTimers, overtaken>>
    /\ UNCHANGED <<now, running, tpc, backstop, ctx, base, firedFor>>
    /\ UNCHANGED <<icLock, icCall, icRet>>
    /\ UNCHANGED <<injVars, exceptCallout>>

\* inject_callout takes the lock of cond and calls inject(call, reply=...),
\* which appends the call to the queue.
CalloutAppend ==
    /\ icpc = "scheduled"
    /\ Running /\ ~run_locally
    /\ QAppend
    /\ icCall' = nCalls + 1
    /\ icLock' = TRUE
    /\ icpc' = "appended"
    /\ UNCHANGED <<pipe, poster, rpc, cur, did, wpc, lockHeld, reply, runnerId,
                   executed, passStart, swallowed, outcome, wret>>
    /\ UNCHANGED <<icReply, icTimer, icRet>>
    /\ UNCHANGED <<timerVars, exceptCallout>>

\* inject() writes the wake-up byte and returns into inject_callout.
CalloutWrite ==
    /\ icpc = "appended"
    /\ pipe' = pipe + 1
    /\ icpc' = "check"
    /\ UNCHANGED <<iq, nCalls, poster, rpc, cur, did, wpc, lockHeld, reply,
                   runnerId, executed, passStart, late, swallowed, outcome, wret>>
    /\ UNCHANGED <<icLock, icReply, icTimer, icCall, icRet>>
    /\ UNCHANGED <<timerVars, exceptCallout>>

\* inject_callout tests reply['ctx'], holding the lock: it goes into
\* cond.wait(), or leaves the loop and raises or returns.
CalloutCheck ==
    /\ icpc = "check"
    /\ icLock' = FALSE
    /\ IF icReply = "None"
       THEN /\ icpc' = "waiting"
            /\ UNCHANGED icRet
       ELSE /\ icpc' = "done"
            /\ icRet' = IF icReply = "ERROR" THEN "raise"
                        ELSE IF icReply = "TIMER" THEN "None"
                        ELSE "value"
    /\ UNCHANGED <<icReply, icTimer, icCall>>
    /\ UNCHANGED <<timerVars, injVars, exceptCallout>>

\* cond.wait() was notified: it takes the lock again and returns.
CalloutWake ==
    /\ icpc = "woken"
    /\ ~icLock
    /\ icLock' = TRUE
    /\ icpc' = "check"
    /\ UNCHANGED <<icReply, icTimer, icCall, icRet>>
    /\ UNCHANGED <<timerVars, injVars, exceptCallout>>

\* cond.notify()
Notified == IF icpc = "waiting" THEN "woken" ELSE icpc

\* catch_reply, called out on the reactor thread by the injected call or by
\* what it arranged: it stores the context, cancels the timeout timer and
\* notifies cond.
CatchReply(state) ==
    /\ Running /\ InUserCode
    /\ icCall # 0 /\ Len(executed) >= icCall
    /\ icReply = "None"
    /\ ~icLock
    /\ icReply' = state
    /\ icpc' = Notified
    /\ IF icTimer # 0
       THEN /\ when' = [when EXCEPT ![icTimer] = None]
            /\ overtaken' = overtaken \ {icTimer}
       ELSE UNCHANGED <<when, overtaken>>
    /\ UNCHANGED <<schedq, nTimers, now, running, tpc, backstop, ctx, base,
                   firedFor>>
    /\ UNCHANGED <<icLock, icTimer, icCall, icRet>>
    /\ UNCHANGED <<injVars, exceptCallout>>

\* catch_timeout, the callout of the timeout timer: it stores the TIMER
\* context, notifies cond and returns to _dispatch.
CatchTimeout ==
    /\ ctx # NoCtx
    /\ ctx.sched = icTimer
    /\ ~icLock
    /\ icReply' = "TIMER"
    /\ icpc' = Notified
    /\ ctx' = NoCtx
    /\ firedFor' = NoBase
    /\ UNCHANGED <<when, schedq, nTimers, now, running, tpc, backstop,
                   base, overtaken>>
    /\ UNCHANGED <<icLock, icTimer, icCall, icRet>>
    /\ UNCHANGED <<injVars, exceptCallout>>

\* The reactor loop of an inject.Controller, whose select() serves the
\* injection pipe, and the threads that inject into it while it runs.
CalloutStep ==
    \/ Tick /\ UNCHANGED loopVars
    \/ Run /\ UNCHANGED loopVars
    \/ Dispatch /\ UNCHANGED loopVars
    \/ rpc = "select" /\ SelectDone /\ UNCHANGED loopVars
    \/ tpc = "select" /\ CanRead
    \/ DrainNext
    \/ Call("return")
    \/ Runner(Returns(1))
    \/ \E state \in {"reply", "ERROR"} : CatchReply(state)
    \/ CatchTimeout
    \/ Running /\ Post(1)
    \/ Write(1)
    \/ Running /\ InjectWait
    \/ WaitWrite
    \/ WaitCheck
    \/ WaitWake
    \/ \E timeout \in Timeouts : InjectCallout(timeout)
    \/ CalloutAppend
    \/ CalloutWrite
    \/ CalloutCheck
    \/ CalloutWake

(***************************************************************************)
(*         PART 6: descriptor objects (asyn/selectable.py)                 *)
(***************************************************************************)

\* Bounds of the descriptor model.
MaxObjects == 2     \* descriptor objects that can be constructed
MaxBuf == 2         \* bytes a write buffer can hold
MaxEvents == 3      \* contexts the observers of one object are sent
MaxStreams == 1     \* Streams whose handlers are followed together

Objects == 1 .. MaxObjects
FDs == 1 .. MaxObjects

\* What os.write does in Stream._can_write: it raises OSError with EAGAIN
\* or with another errno, or it returns the number of bytes written.
Written ==
    {[err |-> e, n |-> 0] : e \in {"EAGAIN", "error"}} \cup
    {[err |-> "none", n |-> n] : n \in 1 .. MaxBuf}

DescInit ==
    /\ kind = [o \in Objects |-> "none"]
    /\ ofd = [o \in Objects |-> 0]
    /\ ocontrol = [o \in Objects |-> FALSE]
    /\ fdOpen = [o \in Objects |-> FALSE]
    /\ fdmap = [fd \in FDs |-> 0]
    /\ events = [o \in Objects |-> <<>>]
    /\ wbuf = [o \in Objects |-> 0]
    /\ shut = [o \in Objects |-> FALSE]
    /\ closing = 0
    /\ tearing = FALSE
    /\ items = {}
    /\ closedObjs = {}

\* The fields that close() and _can_write() read and write.
Desc ==
    [m |-> fdmap, c |-> ocontrol, f |-> fdOpen, e |-> events, w |-> wbuf,
     s |-> shut, x |-> closedObjs]

Set(S) ==
    /\ fdmap' = S.m
    /\ ocontrol' = S.c
    /\ fdOpen' = S.f
    /\ events' = S.e
    /\ wbuf' = S.w
    /\ shut' = S.s
    /\ closedObjs' = S.x

\* self.callout(ctx) of object o.
Emit(S, o, state) == [S EXCEPT !.e[o] = Append(@, state)]

\* Controller.remove(o), then o.control = None.
KeepsKey(S, o) == [S EXCEPT !.c[o] = FALSE]
Removed(S, o) == [S EXCEPT !.m[ofd[o]] = 0, !.c[o] = FALSE]

\* Selectable.close(): if self.control, call out CLOSE, remove, forget.
SilentClose(S, o) == IF S.c[o] THEN Removed(S, o) ELSE S
SelectableClose(S, o) ==
    IF S.c[o] THEN Removed(Emit(S, o, "CLOSE"), o) ELSE S

\* IO.close(): Selectable.close(), then self.io.close().
IOClose(S, o) ==
    [SelectableClose(S, o) EXCEPT !.f[o] = FALSE, !.x = @ \cup {o}]

\* Stream._can_write() when os.write does out.
StreamCanWrite(S, o, out) ==
    IF S.w[o] > 0 /\ out.err = "EAGAIN" THEN S
    ELSE IF S.w[o] > 0 /\ out.err = "error" THEN Emit(S, o, "ERROR")
    ELSE LET T == IF S.w[o] > 0 THEN [S EXCEPT !.w[o] = @ - out.n] ELSE S
         IN  IF T.w[o] = 0 /\ T.s[o] THEN IOClose(T, o) ELSE T

\* What os.write can do for object o with S.w[o] bytes to write.
CanDo(S, o, out) ==
    /\ out.n <= S.w[o]
    /\ ~S.f[o] => out.err = "error"
    /\ out.err = "error" => Len(S.e[o]) < MaxEvents

\* User code runs on the reactor thread: between the handlers, and in the
\* observers of a CLOSE called out by close() (_Inject has no observers).
UserCode ==
    /\ InUserCode
    /\ IF closing = 0 THEN ~tearing ELSE kind[closing] # "Inject"

\* The constructor of a descriptor object of kind k on descriptor fd, which
\* no live object holds: Selectable.__init__ sets control and inserts the
\* object in the Controller, which asserts that fd is not a key of its map.
NewSelectable(k, fd) ==
    /\ UserCode
    /\ \E o \in Objects :
          /\ kind[o] = "none"
          /\ \A p \in Objects : p < o => kind[p] # "none"
          /\ \A p \in Objects : ~(fdOpen[p] /\ ofd[p] = fd)
          /\ fdmap[fd] = 0
          /\ kind' = [kind EXCEPT ![o] = k]
          /\ ofd' = [ofd EXCEPT ![o] = fd]
          /\ ocontrol' = [ocontrol EXCEPT ![o] = TRUE]
          /\ fdOpen' = [fdOpen EXCEPT ![o] = TRUE]
          /\ fdmap' = [fdmap EXCEPT ![fd] = o]
    /\ UNCHANGED <<events, wbuf, shut, closing, tearing, items, closedObjs>>
    /\ UNCHANGED exceptDesc

\* o.close() up to its CLOSE callout.  _Inject.close() closes the two ends
\* of its pipe first.  When o.control is None already nothing is called
\* out, and close() runs to its end.
BeginClose(o) ==
    LET S == IF kind[o] = "Inject" THEN [Desc EXCEPT !.f[o] = FALSE] ELSE Desc
    IN  IF ocontrol[o]
        THEN /\ Set(Emit(S, o, "CLOSE"))
             /\ closing' = o
        ELSE /\ Set([S EXCEPT !.f[o] = FALSE, !.x = @ \cup {o}])
             /\ closing' = 0

\* User code calls o.close().
CloseObject(o) ==
    /\ UserCode /\ closing = 0
    /\ kind[o] # "none"
    /\ kind[o] = "Inject" => fdOpen[o]
    /\ BeginClose(o)
    /\ UNCHANGED <<kind, ofd, tearing, items>>
    /\ UNCHANGED exceptDesc

\* The CLOSE callout has returned: the rest of Selectable.close() (remove,
\* control = None), then for an IO self.io.close().
CloseDone ==
    /\ closing # 0
    /\ closing' = 0
    /\ Set(LET S == [Removed(Desc, closing) EXCEPT !.x = @ \cup {closing}]
           IN  IF kind[closing] = "Inject" THEN S
               ELSE [S EXCEPT !.f[closing] = FALSE])
    /\ UNCHANGED <<kind, ofd, tearing, items>>
    /\ UNCHANGED exceptDesc

\* No close() and no Controller.close() is in progress.
Quiet == closing = 0 /\ ~tearing

\* select() has reported Stream o readable and run() calls o._can_read().  When
\* os.read raises OSError, the error is called out.  When it returns no
\* bytes, _null_read() calls out END, whose observers do nothing, or call
\* o.shutdown() or o.close(); then _null_read() calls self.close().
StreamCanRead(o, input, reaction, out) ==
    /\ Quiet
    /\ kind[o] = "Stream" /\ fdmap[ofd[o]] = o /\ ocontrol[o]
    /\ IF input = "error"
       THEN /\ Len(events[o]) < MaxEvents
            /\ Set(Emit(Desc, o, "ERROR"))
       ELSE LET S1 == Emit(Desc, o, "END")
                S2 == IF reaction = "shutdown"
                      THEN StreamCanWrite([S1 EXCEPT !.s[o] = TRUE], o, out)
                      ELSE IF reaction = "close" THEN IOClose(S1, o)
                      ELSE S1
            IN  /\ CanDo(S1, o, out)
                /\ Set(IOClose(S2, o))
    /\ UNCHANGED <<kind, ofd, closing, tearing, items>>
    /\ UNCHANGED exceptDesc

\* Stream.write(whatever), with k bytes: buffer them and _can_write().
StreamWrite(o, k, out) ==
    /\ UserCode /\ o # closing
    /\ kind[o] = "Stream"
    /\ wbuf[o] + k <= MaxBuf
    /\ LET S == [Desc EXCEPT !.w[o] = @ + k]
       IN  CanDo(S, o, out) /\ Set(StreamCanWrite(S, o, out))
    /\ UNCHANGED <<kind, ofd, closing, tearing, items>>
    /\ UNCHANGED exceptDesc

\* Stream.shutdown(): note it and _can_write().
StreamShutdown(o, out) ==
    /\ UserCode /\ o # closing
    /\ kind[o] = "Stream"
    /\ LET S == [Desc EXCEPT !.s[o] = TRUE]
       IN  CanDo(S, o, out) /\ Set(StreamCanWrite(S, o, out))
    /\ UNCHANGED <<kind, ofd, closing, tearing, items>>
    /\ UNCHANGED exceptDesc

\* select() has reported Stream o, which wants to write, writable, and
\* run() calls o._can_write().
StreamWritable(o, out) ==
    /\ Quiet
    /\ kind[o] = "Stream" /\ fdmap[ofd[o]] = o /\ ocontrol[o]
    /\ wbuf[o] > 0
    /\ CanDo(Desc, o, out) /\ Set(StreamCanWrite(Desc, o, out))
    /\ UNCHANGED <<kind, ofd, closing, tearing, items>>
    /\ UNCHANGED exceptDesc

\* Controller.close() up to its loop: stop(), and the list of the map's
\* values.
ControllerClose ==
    /\ UserCode /\ Quiet
    /\ running' = FALSE
    /\ tearing' = TRUE
    /\ items' = {o \in Objects : \E fd \in FDs : fdmap[fd] = o}
    /\ UNCHANGED <<when, schedq, nTimers, now, tpc, backstop, ctx, base,
                   firedFor, overtaken>>
    /\ UNCHANGED <<kind, ofd, ocontrol, fdOpen, fdmap, events, wbuf, shut,
                   closing, closedObjs>>
    /\ UNCHANGED <<cbVars, exceptLoop>>

\* The loop of Controller.close(): item.close().
CloseItem(o) ==
    /\ tearing /\ closing = 0
    /\ o \in items
    /\ items' = items \ {o}
    /\ BeginClose(o)
    /\ UNCHANGED <<kind, ofd, tearing>>
    /\ UNCHANGED exceptDesc

\* The end of Controller.close(): the timers and the periodic callouts go.
ControllerClosed ==
    /\ tearing /\ closing = 0
    /\ items = {}
    /\ tearing' = FALSE
    /\ schedq' = <<>>
    /\ callbacks' = <<>>
    /\ UNCHANGED <<when, nTimers, now, running, tpc, backstop, ctx, base,
                   firedFor, overtaken>>
    /\ UNCHANGED <<reducer, cpc, latched, idx, results, ret, atStart,
                   calledSeq, removedDue>>
    /\ UNCHANGED <<kind, ofd, ocontrol, fdOpen, fdmap, events, wbuf, shut,
                   closing, items, closedObjs>>
    /\ UNCHANGED exceptLoop

\* Streams: construction, reads, writes and shutdown().
StreamStep ==
    \/ \E fd \in FDs : kind[MaxStreams] = "none" /\ NewSelectable("Stream", fd)
    \/ \E o \in Objects, input \in {"error", "null"},
          reaction \in {"none", "shutdown", "close"}, out \in Written :
          StreamCanRead(o, input, reaction, out)
    \/ \E o \in Objects, k \in 1 .. MaxBuf, out \in Written : StreamWrite(o, k, out)
    \/ \E o \in Objects, out \in Written : StreamShutdown(o, out)
    \/ \E o \in Objects, out \in Written : StreamWritable(o, out)

\* A Controller with descriptor objects, inside and outside run():
\* construction, close() and Controller.close().
DescStep ==
    \/ Quiet /\ Run /\ UNCHANGED loopVars
    \/ Quiet /\ Dispatch /\ UNCHANGED loopVars
    \/ Quiet /\ CalloutReturn /\ UNCHANGED loopVars
    \/ Quiet /\ SelectDone /\ UNCHANGED loopVars
    \/ UserCode /\ nTimers < 1 /\ Schedule(None, None) /\ UNCHANGED loopVars
    \/ UserCode /\ AddCallout(1)
    \/ \E k \in {"Stream", "IO", "Inject"}, fd \in FDs : NewSelectable(k, fd)
    \/ \E o \in Objects : CloseObject(o)
    \/ CloseDone
    \/ ControllerClose
    \/ \E o \in Objects : CloseItem(o)
    \/ ControllerClosed

(***************************************************************************)
(*         PART 7: the loop of Controller.run() (asyn/controller.py)       *)
(***************************************************************************)

LoopInit ==
    /\ lpc = "none"
    /\ deadline = None
    /\ wants = FALSE
    /\ err = "none"

\* User code runs: before run(), in a timer callout, in an I/O callback.
LoopUserCode ==
    \/ tpc = "idle" /\ lpc = "none"
    \/ ctx # NoCtx
    \/ lpc = "io"

\* Where run() is once a _dispatch pass has returned: at the poll step
\* after the first pass, and after the second one at the periodic callout of
\* the next turn of the loop, or out of the loop.
Position ==
    IF tpc' = tpc THEN lpc
    ELSE IF tpc' = "select" THEN "poll"
    ELSE IF tpc' = "dispatch1" THEN "periodic"
    ELSE "none"

\* run() is entered and comes to self.periodic.callout(ctx_periodic).
LoopRun ==
    /\ lpc = "none"
    /\ Run
    /\ lpc' = "periodic"
    /\ UNCHANGED <<deadline, wants, err>>

\* What the observers of the periodic callout do: nothing, stop(), or
\* schedule(callable, after=0).
PeriodicActs == {"none", "stop", "schedule"}

\* self.periodic.callout(ctx_periodic), from the call to its return.
PeriodicCallout(act) ==
    /\ lpc = "periodic"
    /\ lpc' = "none"
    /\ IF act = "stop"
       THEN /\ running' = FALSE
            /\ UNCHANGED <<when, schedq, nTimers, overtaken>>
       ELSE IF act = "schedule"
       THEN /\ nTimers < MaxLoopTimers
            /\ nTimers' = nTimers + 1
            /\ Push(nTimers + 1, ScheduleWhen(None, 0))
            /\ UNCHANGED running
       ELSE UNCHANGED <<when, schedq, nTimers, overtaken, running>>
    /\ UNCHANGED <<now, tpc, backstop, ctx, base, firedFor>>
    /\ UNCHANGED <<deadline, wants, err>>
    /\ UNCHANGED exceptTimer

\* One iteration of the loop of _dispatch, in either pass.
LoopDispatch ==
    /\ lpc = "none"
    /\ Dispatch
    /\ lpc' = Position
    /\ UNCHANGED <<deadline, wants, err>>

\* max(0, self._schedq[0].when - time.time()) if self._schedq else None,
\* where the head of the queue has a fire time.
Timeout ==
    IF schedq = <<>> THEN None
    ELSE IF when[schedq[1]] - now > 0 THEN when[schedq[1]] - now ELSE 0

\* None - time.time() raises TypeError: the head of the queue was cancelled.
HeadCancelled == schedq # <<>> /\ when[schedq[1]] = None

\* assert timeout or reads or writes
NeverAsserts(timeout, rw) == TRUE
Asserted(timeout, rw) == (timeout # None /\ timeout # 0) \/ rw

\* An exception leaves run(): running stays as it is.
Raise(e) ==
    /\ lpc' = "raised"
    /\ err' = e
    /\ tpc' = "idle"
    /\ UNCHANGED deadline

\* The poll step of run(): the lists of interested objects, the timeout,
\* the assertion, and the call of select.select.
Poll ==
    /\ lpc = "poll"
    /\ IF HeadCancelled THEN Raise("TypeError")
       ELSE IF ~Asserted(Timeout, wants) THEN Raise("AssertionError")
       ELSE /\ lpc' = "blocked"
            /\ deadline' = IF Timeout = None THEN None ELSE now + Timeout
            /\ UNCHANGED <<tpc, err>>
    /\ UNCHANGED <<when, schedq, nTimers, now, running, backstop, ctx,
                   base, firedFor, overtaken, wants>>
    /\ UNCHANGED exceptTimer

\* select.select returns: a descriptor is ready or the timeout is over.
Wake ==
    /\ lpc = "blocked"
    /\ wants \/ (deadline # None /\ now >= deadline)
    /\ lpc' = "io"
    /\ UNCHANGED <<deadline, wants, err>>
    /\ UNCHANGED <<timerVars, exceptTimer>>

\* User code adds or drops interest: a descriptor object is constructed or
\* closed, an observer is added or removed.
SetWants(b) ==
    /\ LoopUserCode
    /\ wants # b
    /\ wants' = b
    /\ UNCHANGED <<lpc, deadline, err>>
    /\ UNCHANGED <<timerVars, exceptTimer>>

\* The I/O callbacks are over: run() goes to its second _dispatch pass.
IoDone ==
    /\ lpc = "io"
    /\ SelectDone
    /\ lpc' = "none"
    /\ UNCHANGED <<deadline, wants, err>>

\* run() from its entry to its return, with what user code does to it.
LoopStep ==
    \/ Tick /\ UNCHANGED loopVars
    \/ LoopRun
    \/ \E act \in PeriodicActs : PeriodicCallout(act)
    \/ LoopDispatch
    \/ CalloutReturn /\ UNCHANGED loopVars
    \/ Poll
    \/ Wake
    \/ IoDone
    \/ \E b \in BOOLEAN : SetWants(b)
    \/ LoopUserCode /\ Stop /\ UNCHANGED loopVars
    \/ \E e \in Timers : LoopUserCode /\ Cancel(e) /\ UNCHANGED loopVars
    \/ \E after \in {0, 1} :
          /\ LoopUserCode /\ nTimers < MaxLoopTimers
          /\ Schedule(None, after) /\ UNCHANGED loopVars

(***************************************************************************)
(*              PART 8: Scannable and Regex (asyn/scan.py)                 *)
(***************************************************************************)

\* Bound of the scanner model.
MaxData == 4        \* bytes fed to a Scannable, over all its _scan calls

\* The bytes: two letters and "n", the newline.
Alphabet == {"a", "b", "n"}

\* The byte strings of at most k bytes.
Strings(k) == UNION {[1 .. j -> Alphabet] : j \in 0 .. k}

\* The rules a Regex is given: (regex, state) pairs. A rule whose state is
\* false ("") consumes its match without a callout.
\*   "line"  ([^\n]*)\n  as in Command, the same matches as (.*)\n
\*   "a+"    (a+)
\*   "ab"    ab
\*   "a"     a
\*   "b"     b, with a false state
LineRule == [re |-> "line", state |-> "LINE"]
Rules ==
    {LineRule, [re |-> "a+", state |-> "AS"], [re |-> "ab", state |-> "AB"],
     [re |-> "a", state |-> "A"], [re |-> "b", state |-> ""]}

\* The rule lists: one rule, or two in order.
RuleSets == {<<r>> : r \in Rules} \cup {<<r, q>> : r, q \in Rules}

\* The number of bytes c the buffer starts with.
Leading(buf, c) ==
    CHOOSE k \in 0 .. Len(buf) :
        /\ \A i \in 1 .. k : buf[i] = c
        /\ k = Len(buf) \/ buf[k + 1] # c

\* pattern.match(buffer): m.end(0) of the match at the start of the buffer,
\* 0 when there is none (no rule here matches the empty string).
End(pattern, buf) ==
    IF pattern = "line"
    THEN IF \E i \in 1 .. Len(buf) : buf[i] = "n"
         THEN CHOOSE i \in 1 .. Len(buf) :
                  buf[i] = "n" /\ \A j \in 1 .. i - 1 : buf[j] # "n"
         ELSE 0
    ELSE IF pattern = "a+" THEN Leading(buf, "a")
    ELSE IF pattern = "ab"
    THEN IF Len(buf) >= 2 /\ buf[1] = "a" /\ buf[2] = "b" THEN 2 ELSE 0
    ELSE IF Len(buf) >= 1 /\ buf[1] = pattern THEN 1 ELSE 0

\* m.groups() of that match: the one group of "line" and of "a+".
Groups(pattern, buf) ==
    IF pattern = "line" THEN <<SubSeq(buf, 1, End(pattern, buf) - 1)>>
    ELSE IF pattern = "a+" THEN <<SubSeq(buf, 1, End(pattern, buf))>>
    ELSE <<>>

\* Regex.scan(buffer, callout): the first rule that matches wins; what is
\* called out, and the remains returned (matched FALSE: None returned).
RegexScan(rs, buf) ==
    LET hits == {i \in 1 .. Len(rs) : End(rs[i].re, buf) > 0}
    IN  IF buf = <<>> \/ hits = {}
        THEN [matched |-> FALSE, remains |-> <<>>, event |-> <<>>]
        ELSE LET i == CHOOSE h \in hits : \A g \in hits : h <= g
                 rule == rs[i]
             IN  [matched |-> TRUE,
                  remains |-> SubSeq(buf, End(rule.re, buf) + 1, Len(buf)),
                  event |-> IF rule.state # ""
                            THEN <<[state |-> rule.state,
                                    groups |-> Groups(rule.re, buf)]>>
                            ELSE <<>>]

\* The loop of Scannable._scan: scan until the buffer is empty or the
\* scanner makes no progress; the buffer that is left and the callouts.
RECURSIVE ScanLoop(_, _, _)
ScanLoop(rs, buf, out) ==
    LET result == RegexScan(rs, buf)
    IN  IF buf = <<>> \/ ~result.matched
        THEN [rbuf |-> buf, out |-> out]
        ELSE ScanLoop(rs, result.remains, out \o result.event)

\* self._rbuf += data
Forgotten(buf, data) == data
Retained(buf, data) == buf \o data

ScanInit ==
    /\ scanner = <<>>
    /\ rbuf = <<>>
    /\ delivered = <<>>
    /\ chunks = <<>>

\* All the bytes fed so far.
RECURSIVE Concat(_)
Concat(cs) == IF cs = <<>> THEN <<>> ELSE Head(cs) \o Concat(Tail(cs))

\* self.scan = Regex(ruleset), before any data has come.
SetScan(rs) ==
    /\ scanner = <<>>
    /\ scanner' = rs
    /\ UNCHANGED <<rbuf, delivered, chunks>>
    /\ UNCHANGED exceptScan

\* Scannable._scan(data), as Stream._can_read calls it with the bytes read.
Scan(data) ==
    /\ scanner # <<>>
    /\ data # <<>>
    /\ LET r == ScanLoop(scanner, Retained(rbuf, data), delivered)
       IN  rbuf' = r.rbuf /\ delivered' = r.out
    /\ chunks' = Append(chunks, data)
    /\ UNCHANGED scanner
    /\ UNCHANGED exceptScan

ScanStep ==
    \/ \E rs \in RuleSets : SetScan(rs)
    \/ \E data \in Strings(MaxData - Len(Concat(chunks))) : Scan(data)

(***************************************************************************)
(*                   PART 9: ByteLimit (asyn/scan.py)                      *)
(***************************************************************************)

\* Bounds of the byte limit model.
MaxLimit == 3       \* the limits and thresholds a ByteLimit is given
MaxFed == 4         \* bytes fed to the Scannable, over all its _scan calls
MaxReached == 2     \* limit-reached contexts that are counted

LimitInit ==
    /\ blLimit = None
    /\ blThresh = None
    /\ blDelivered = 0
    /\ blRbuf = 0
    /\ blpc = "idle"
    /\ blFed = 0
    /\ blSent = 0
    /\ blReached = 0

\* self.scan = ByteLimit(limit, threshold)
NewByteLimit(limit, threshold) ==
    /\ blLimit = None
    /\ blLimit' = limit
    /\ blThresh' = threshold
    /\ UNCHANGED <<blDelivered, blRbuf, blpc, blFed, blSent, blReached>>
    /\ UNCHANGED exceptLimit

\* Scannable._scan(data) is entered: self._rbuf += data.
LimitFeed(n) ==
    /\ blLimit # None
    /\ blpc = "idle"
    /\ blFed + n <= MaxFed
    /\ blFed' = blFed + n
    /\ blRbuf' = blRbuf + n
    /\ blpc' = "scanning"
    /\ UNCHANGED <<blLimit, blThresh, blDelivered, blSent, blReached>>
    /\ UNCHANGED exceptLimit

\* if self._threshold and available < self._threshold: return None
NotYet(available) ==
    blThresh # None /\ blThresh # 0 /\ available < blThresh

\* The bytes of the buffer that ByteLimit.scan sends on: count.
Count(available) ==
    IF available > blLimit THEN blLimit - blDelivered ELSE blRbuf

\* One turn of the loop of _scan: while self._rbuf, ByteLimit.scan on the
\* buffer, return on None, keep what scan returns.
LimitScan ==
    /\ blpc = "scanning"
    /\ LET available == blDelivered + blRbuf
           count == Count(available)
       IN  IF blRbuf = 0 \/ NotYet(available)
           THEN /\ blpc' = "idle"
                /\ UNCHANGED <<blDelivered, blRbuf, blSent, blReached>>
           ELSE /\ blReached < MaxReached
                /\ blSent' = blSent + count
                /\ blDelivered' = blDelivered + count
                /\ blReached' = IF blDelivered' = blLimit
                                THEN blReached + 1 ELSE blReached
                /\ blRbuf' = blRbuf - count
                /\ UNCHANGED blpc
    /\ UNCHANGED <<blLimit, blThresh, blFed>>
    /\ UNCHANGED exceptLimit

LimitStep ==
    \/ \E limit \in 1 .. MaxLimit, threshold \in {None} \cup 0 .. MaxLimit :
          NewByteLimit(limit, threshold)
    \/ \E n \in 1 .. MaxFed : LimitFeed(n)
    \/ LimitScan

(***************************************************************************)
(*     PART 10: the I/O callbacks of run() and Connector._can_write        *)
(*              (asyn/controller.py, asyn/resolve.py)                      *)
(***************************************************************************)

BatchInit ==
    /\ keep = [o \in Objects |-> FALSE]
    /\ asserted = FALSE
    /\ reads = {}
    /\ writes = {}
    /\ rdone = {}
    /\ wdone = {}
    /\ served = {}
    /\ gone = {}

\* The objects of the Controller's map.
Registered == {o \in Objects : kind[o] # "none" /\ fdmap[ofd[o]] = o}

\* IO.close() after keep_file(): Selectable.close(), and the file is left
\* alone.
ClosesFile(S, o) == IOClose(S, o)
KeptClose(S, o) == [SelectableClose(S, o) EXCEPT !.x = @ \cup {o}]

\* IO.close() of object o with its _keep_file as it is.
AnyClose(S, o) == IF keep[o] THEN KeptClose(S, o) ELSE IOClose(S, o)

\* Connector._can_write(): with SO_ERROR set, close() and callout_error;
\* otherwise keep_file(), close(), and the 'connected' callout.
ConnectorCanWrite(S, o, error) ==
    IF error THEN Emit(AnyClose(S, o), o, "ERROR")
    ELSE Emit(KeptClose(S, o), o, "connected")

\* What the handler of a descriptor object other than a Connector, and the
\* observers it calls out to, do to the objects: nothing, or they close
\* object p (the object itself or another one).
Handled(S, p) == IF p = 0 THEN S ELSE AnyClose(S, p)

\* if item.control:
Unchecked(S, o) == TRUE
Attached(S, o) == S.c[o]

\* select.select(reads, writes, [], timeout) returns: some of the objects
\* of the map are readable and some writable (a Connector never wants read).
Select(rs, ws) ==
    /\ Quiet /\ ~asserted
    /\ reads = {} /\ writes = {}
    /\ rs \cup ws # {}
    /\ rs \cup ws \subseteq Registered
    /\ \A o \in rs : kind[o] # "Connector"
    /\ reads' = rs
    /\ writes' = ws
    /\ rdone' = {}
    /\ wdone' = {}
    /\ served' = {}
    /\ gone' = {}
    /\ UNCHANGED <<keep, asserted>>
    /\ UNCHANGED <<descVars, exceptHandler>>

\* What a callback has closed: the objects that have lost their control.
Lost(S) == {p \in Objects : ocontrol[p] /\ ~S.c[p]}

\* for item in reads: if item.control: item._can_read()
DeliverRead(o, p) ==
    /\ o \in reads \ rdone
    /\ rdone' = rdone \cup {o}
    /\ IF Attached(Desc, o)
       THEN /\ served' = served \cup {<<o, "read">>}
            /\ Set(Handled(Desc, p))
            /\ gone' = gone \cup Lost(Handled(Desc, p))
       ELSE UNCHANGED <<served, gone, fdmap, ocontrol, fdOpen, events, wbuf,
                        shut, closedObjs>>
    /\ UNCHANGED <<kind, ofd, closing, tearing, items>>
    /\ UNCHANGED <<keep, asserted, reads, writes, wdone>>
    /\ UNCHANGED exceptHandler

\* for item in writes: if item.control: item._can_write(), for an object
\* that is not a Connector.
DeliverWrite(o, p) ==
    /\ reads = rdone
    /\ o \in writes \ wdone
    /\ kind[o] # "Connector"
    /\ wdone' = wdone \cup {o}
    /\ IF Attached(Desc, o)
       THEN /\ served' = served \cup {<<o, "write">>}
            /\ Set(Handled(Desc, p))
            /\ gone' = gone \cup Lost(Handled(Desc, p))
       ELSE UNCHANGED <<served, gone, fdmap, ocontrol, fdOpen, events, wbuf,
                        shut, closedObjs>>
    /\ UNCHANGED <<kind, ofd, closing, tearing, items>>
    /\ UNCHANGED <<keep, asserted, reads, writes, rdone>>
    /\ UNCHANGED exceptHandler

\* The same for a Connector o.  When it calls out 'connected', the observer
\* leaves the socket alone, or (adopt) constructs a Stream on it, as Client
\* of the regression test does: Selectable.__init__ inserts the Stream,
\* and Controller.insert asserts that the descriptor is not in the map.
ConnectorWritable(o, error, adopt) ==
    /\ reads = rdone
    /\ o \in writes \ wdone
    /\ kind[o] = "Connector"
    /\ wdone' = wdone \cup {o}
    /\ IF ~Attached(Desc, o)
       THEN UNCHANGED <<served, gone, fdmap, ocontrol, fdOpen, events, wbuf,
                        shut, closedObjs, kind, ofd, keep, asserted>>
       ELSE LET S == ConnectorCanWrite(Desc, o, error)
                new == {p \in Objects : kind[p] = "none"}
            IN  /\ served' = served \cup {<<o, "write">>}
                /\ gone' = gone \cup Lost(S)
                /\ keep' = IF error THEN keep ELSE [keep EXCEPT ![o] = TRUE]
                /\ IF error \/ ~adopt \/ new = {}
                   THEN Set(S) /\ UNCHANGED <<kind, ofd, asserted>>
                   ELSE LET p == CHOOSE q \in new : \A r \in new : q <= r
                            fd == ofd[o]
                        IN  /\ kind' = [kind EXCEPT ![p] = "Stream"]
                            /\ ofd' = [ofd EXCEPT ![p] = fd]
                            /\ IF S.m[fd] # 0
                               THEN /\ asserted' = TRUE
                                    /\ Set([S EXCEPT !.c[p] = TRUE,
                                                      !.f[p] = S.f[o],
                                                      !.f[o] = FALSE])
                               ELSE /\ UNCHANGED asserted
                                    /\ Set([S EXCEPT !.m[fd] = p,
                                                      !.c[p] = TRUE,
                                                      !.f[p] = S.f[o],
                                                      !.f[o] = FALSE])
    /\ UNCHANGED <<closing, tearing, items>>
    /\ UNCHANGED <<reads, writes, rdone>>
    /\ UNCHANGED exceptHandler

\* The two loops are over: run() goes on to its second _dispatch pass.
BatchDone ==
    /\ reads \cup writes # {}
    /\ reads = rdone /\ writes = wdone
    /\ reads' = {}
    /\ writes' = {}
    /\ UNCHANGED <<keep, asserted, rdone, wdone, served, gone>>
    /\ UNCHANGED <<descVars, exceptHandler>>

BatchStep ==
    \/ \E k \in {"IO", "Connector"}, fd \in FDs :
          reads \cup writes = {} /\ NewSelectable(k, fd)
    \/ \E rs \in SUBSET Objects, ws \in SUBSET Objects : Select(rs, ws)
    \/ \E o \in Objects, p \in {0} \cup Objects : DeliverRead(o, p)
    \/ \E o \in Objects, p \in {0} \cup Objects : DeliverWrite(o, p)
    \/ \E o \in Objects, error \in BOOLEAN, adopt \in BOOLEAN :
          ConnectorWritable(o, error, adopt)
    \/ BatchDone

(***************************************************************************)
(*                  PART 11: Datagram (asyn/selectable.py)                 *)
(***************************************************************************)

\* Bounds of the datagram model.
MaxPacket == 2      \* bytes in one packet
MaxPackets == 2     \* packets received and packets written, together

\* The addresses packets come from and go to.
Addrs == {"peer1", "peer2"}

DatagramInit ==
    /\ dgScan = <<>>
    /\ dgQueue = <<>>
    /\ dgOut = <<>>
    /\ dgRecv = <<>>
    /\ dgWire = <<>>
    /\ dgRaised = ""

\* datagram.scan = Regex(ruleset)
DatagramSetScan(rs) ==
    /\ dgRaised = ""
    /\ dgScan = <<>>
    /\ dgRecv = <<>>
    /\ dgScan' = rs
    /\ UNCHANGED <<dgQueue, dgOut, dgRecv, dgWire, dgRaised>>
    /\ UNCHANGED exceptDgram

\* The value of  not self.scan or self.scan.scan(data, self.callout) : what
\* scan returns is true when it is a string that is not empty.
NotConsumed(rs, data) ==
    \/ rs = <<>>
    \/ RegexScan(rs, data).matched /\ RegexScan(rs, data).remains # <<>>

\* The contexts one packet is called out with: what the scanner calls out
\* while it scans, then DGRAM with the whole packet.
Deliver(rs, data, addr) ==
    (IF rs = <<>> THEN <<>>
     ELSE [i \in 1 .. Len(RegexScan(rs, data).event) |->
              [state |-> RegexScan(rs, data).event[i].state,
               data |-> RegexScan(rs, data).event[i].groups,
               source |-> ""]])
    \o (IF NotConsumed(rs, data)
        THEN <<[state |-> "DGRAM", data |-> data, source |-> addr]>>
        ELSE <<>>)

\* Datagram._can_read, on a readable event.
DatagramCanRead(data, addr) ==
    /\ dgRaised = ""
    /\ Len(dgRecv) + Len(dgWire) + Len(dgQueue) < MaxPackets
    /\ dgRecv' = Append(dgRecv, [data |-> data, addr |-> addr])
    /\ dgOut' = dgOut \o Deliver(dgScan, data, addr)
    /\ UNCHANGED <<dgScan, dgQueue, dgWire, dgRaised>>
    /\ UNCHANGED exceptDgram

\* Datagram.write(data, addr)
DatagramWrite(data, addr) ==
    /\ dgRaised = ""
    /\ Len(dgRecv) + Len(dgWire) + Len(dgQueue) < MaxPackets
    /\ dgQueue' = Append(dgQueue, [data |-> data, addr |-> addr])
    /\ UNCHANGED <<dgScan, dgOut, dgRecv, dgWire, dgRaised>>
    /\ UNCHANGED exceptDgram

\* What sendto can do with a packet: the number of bytes it says it sent,
\* or a socket.error.
Sendto(data) == 0 .. Len(data) \cup {None}

\* Callable.callout_error(error) with a str: assert isinstance(error,
\* Exception) fails before anything is called out.
CalloutErrorStr == [out |-> <<>>, raised |-> "AssertionError"]

\* Datagram._can_write, on a writable event (_wants_write: the queue is not
\* empty). A socket.error is no OSError and leaves the handler as well.
DatagramCanWrite(sent) ==
    /\ dgRaised = ""
    /\ dgQueue # <<>>
    /\ sent \in Sendto(Head(dgQueue).data)
    /\ dgQueue' = Tail(dgQueue)
    /\ dgWire' = Append(dgWire, [data |-> Head(dgQueue).data,
                                 addr |-> Head(dgQueue).addr, sent |-> sent])
    /\ IF sent = None
       THEN dgRaised' = "socket.error" /\ UNCHANGED dgOut
       ELSE IF sent # Len(Head(dgQueue).data)
       THEN /\ dgOut' = dgOut \o CalloutErrorStr.out
            /\ dgRaised' = CalloutErrorStr.raised
       ELSE UNCHANGED <<dgOut, dgRaised>>
    /\ UNCHANGED <<dgScan, dgRecv>>
    /\ UNCHANGED exceptDgram

DatagramStep ==
    \/ \E rs \in RuleSets : DatagramSetScan(rs)
    \/ \E data \in Strings(MaxPacket), addr \in Addrs :
          DatagramCanRead(data, addr)
    \/ \E data \in Strings(MaxPacket), addr \in Addrs :
          DatagramWrite(data, addr)
    \/ \E sent \in 0 .. MaxPacket \cup {None} : DatagramCanWrite(sent)

(***************************************************************************)
(*               PART 12: ChunkedCoder (asyn/http_chunk.py)                *)
(***************************************************************************)

\* Bounds of the chunked coding model.
MaxChunk == 2       \* bytes in the data of one write() call
MaxChunks == 2      \* write() calls before write_flush()

\* The bytes that are written, and the bytes of the framing.
Payload == {"a", "b"}
CR == "CR"
LF == "LF"
HexDigits ==
    <<"0", "1", "2", "3", "4", "5", "6", "7", "8", "9", "A", "B", "C", "D",
      "E", "F">>

\* The data of a write() call.
Datas == UNION {[1 .. j -> Payload] : j \in 0 .. MaxChunk}

\* "%X" % n
RECURSIVE Hex(_)
Hex(n) ==
    IF n < 16 THEN <<HexDigits[n + 1]>>
    ELSE Hex(n \div 16) \o <<HexDigits[(n % 16) + 1]>>

\* int(header, 16); None where it raises ValueError.
RECURSIVE Int16(_)
Int16(header) ==
    LET last == header[Len(header)]
        front == SubSeq(header, 1, Len(header) - 1)
    IN  IF header = <<>> \/ ~\E v \in 1 .. 16 : HexDigits[v] = last
        THEN None
        ELSE IF front = <<>>
        THEN (CHOOSE v \in 1 .. 16 : HexDigits[v] = last) - 1
        ELSE IF Int16(front) = None THEN None
        ELSE 16 * Int16(front)
             + (CHOOSE v \in 1 .. 16 : HexDigits[v] = last) - 1

\* data.find('\r\n'), counted from 0; -1 when it is not there.
Find(data) ==
    IF \E i \in 1 .. Len(data) - 1 : data[i] = CR /\ data[i + 1] = LF
    THEN (CHOOSE i \in 1 .. Len(data) - 1 :
             /\ data[i] = CR /\ data[i + 1] = LF
             /\ \A j \in 1 .. i - 1 : ~(data[j] = CR /\ data[j + 1] = LF)) - 1
    ELSE -1

\* header.partition(';')[0]
Partition(header) ==
    IF \E i \in 1 .. Len(header) : header[i] = ";"
    THEN SubSeq(header, 1,
                (CHOOSE i \in 1 .. Len(header) :
                    header[i] = ";" /\ \A j \in 1 .. i - 1 : header[j] # ";")
                - 1)
    ELSE header

\* data[a:] and data[:b] of Python, for a, b >= 0.
From(data, a) == SubSeq(data, a + 1, Len(data))
UpTo(data, b) == SubSeq(data, 1, IF b < Len(data) THEN b ELSE Len(data))

\* sendlen = rlen - min(2-self._remain, 0), with _remain what is left after
\* these rlen bytes.
SendLen(rlen, remain) ==
    rlen - (IF 2 - remain < 0 THEN 2 - remain ELSE 0)

ChunkInit ==
    /\ chWrites = <<>>
    /\ chWire = <<>>
    /\ chFlushed = FALSE
    /\ chFed = 0
    /\ chPending = <<>>
    /\ chRemain = 0
    /\ chOut = <<>>
    /\ chRaised = ""

\* ChunkedCoder.write(data): the length line, then data + "\r\n".
ChunkWrite(data) ==
    /\ ~chFlushed
    /\ Len(chWrites) < MaxChunks
    /\ chWrites' = Append(chWrites, data)
    /\ chWire' = chWire \o Hex(Len(data)) \o <<CR, LF>> \o data \o <<CR, LF>>
    /\ UNCHANGED <<chFlushed, chFed, chPending, chRemain, chOut, chRaised>>
    /\ UNCHANGED exceptChunk

\* ChunkedCoder.write_flush(): "0\r\n\r\n"
ChunkWriteFlush ==
    /\ ~chFlushed
    /\ chFlushed' = TRUE
    /\ chWire' = chWire \o <<"0", CR, LF, CR, LF>>
    /\ UNCHANGED <<chWrites, chFed, chPending, chRemain, chOut, chRaised>>
    /\ UNCHANGED exceptChunk

\* Scannable._scan(data) with no scanner: RAW with the data, if there is any.
ScanRaw(data) ==
    IF data = <<>> THEN <<>> ELSE <<[state |-> "RAW", data |-> data]>>

\* The loop of _pass_downstream: st is _remain, _pending, what was called
\* out and what was raised; data is what is left to look at.
RECURSIVE PassLoop(_, _)
PassLoop(st, data) ==
    IF data = <<>> THEN st
    ELSE LET rlen == IF Len(data) < st.remain THEN Len(data) ELSE st.remain
             remain == st.remain - rlen
             sent == IF st.remain # 0
                     THEN ScanRaw(UpTo(data, SendLen(rlen, remain)))
                     ELSE <<>>
             rest == From(data, rlen)
             out == st.out \o sent
             hlen == Find(rest)
             n == Int16(Partition(UpTo(rest, hlen)))
             body == From(rest, hlen + 2)
         IN  IF remain = 0 /\ rest # <<>>
             THEN IF hlen = -1
                  THEN [st EXCEPT !.remain = remain, !.out = out,
                                  !.pending = rest]
                  ELSE IF n = None
                  THEN [st EXCEPT !.remain = remain, !.out = out,
                                  !.raised = "ValueError"]
                  ELSE IF n + 2 = 2
                  THEN [st EXCEPT !.remain = 2, !.pending = body,
                           !.out = Append(out,
                                      [state |-> "END", data |-> body])]
                  ELSE PassLoop([st EXCEPT !.remain = n + 2, !.out = out],
                                body)
             ELSE PassLoop([st EXCEPT !.remain = remain, !.out = out], rest)

\* ChunkedCoder.incoming(ctx, data) with ctx.state == 'RAW':
\* _pass_downstream(data), with the next k bytes of what was written.
ChunkIncoming(k) ==
    /\ chFlushed
    /\ chRaised = ""
    /\ k >= 1 /\ chFed + k <= Len(chWire)
    /\ LET data == SubSeq(chWire, chFed + 1, chFed + k)
           st == PassLoop([remain |-> chRemain, pending |-> <<>>,
                           out |-> chOut, raised |-> ""],
                          chPending \o data)
       IN  /\ chRemain' = st.remain
           /\ chPending' = st.pending
           /\ chOut' = st.out
           /\ chRaised' = st.raised
    /\ chFed' = chFed + k
    /\ UNCHANGED <<chWrites, chWire, chFlushed>>
    /\ UNCHANGED exceptChunk

ChunkStep ==
    \/ \E data \in Datas : ChunkWrite(data)
    \/ ChunkWriteFlush
    \/ \E k \in 1 .. Len(chWire) : ChunkIncoming(k)

(***************************************************************************)
(*                  PART 13: GZipCoder (asyn/zfilter.py)                   *)
(***************************************************************************)

\* Bounds of the gzip coding model.
MaxZWrites == 2     \* write() calls before write_flush()

\* A compressed stream is its header, the deflated data and its trailer.
\* zlib.compressobj(level) writes the zlib format; a decompressobj made
\* with wbits 16 + MAX_WBITS reads the gzip format only.
ZlibHeader == [z |-> "zlib header"]
GZipHeader == [z |-> "gzip header"]
Trailer == [z |-> "trailer"]
Deflated(data) == [i \in 1 .. Len(data) |-> [z |-> "deflated", of |-> data[i]]]

\* compressobj.compress(data), the first call, and flush(Z_FINISH).
Compress(data) == <<ZlibHeader>> \o Deflated(data)
Finish == <<Trailer>>

\* decompressobj.decompress(data): where the stream is then, the bytes that
\* come out and whether zlib.error is raised.
RECURSIVE Decompress(_, _, _)
Decompress(at, data, out) ==
    IF data = <<>> \/ at = "done"
    THEN [at |-> at, out |-> out, raised |-> ""]
    ELSE IF at = "header"
    THEN IF Head(data) = GZipHeader
         THEN Decompress("body", Tail(data), out)
         ELSE [at |-> at, out |-> out, raised |-> "zlib.error"]
    ELSE IF Head(data) = Trailer
    THEN Decompress("done", Tail(data), out)
    ELSE IF Head(data).z = "deflated"
    THEN Decompress(at, Tail(data), Append(out, Head(data).of))
    ELSE [at |-> at, out |-> out, raised |-> "zlib.error"]

GZipInit ==
    /\ gzWrites = <<>>
    /\ gzZw = FALSE
    /\ gzWire = <<>>
    /\ gzFlushed = FALSE
    /\ gzFed = 0
    /\ gzZr = "None"
    /\ gzEnded = FALSE
    /\ gzOut = <<>>
    /\ gzRaised = ""

\* GZipCoder.write(data): the compressobj is made and the data compressed
\* and written when there is no compressobj yet, and only then.
GZipWrite(data) ==
    /\ ~gzFlushed
    /\ Len(gzWrites) < MaxZWrites
    /\ gzWrites' = Append(gzWrites, data)
    /\ IF ~gzZw
       THEN gzZw' = TRUE /\ gzWire' = gzWire \o Compress(data)
       ELSE UNCHANGED <<gzZw, gzWire>>
    /\ UNCHANGED <<gzFlushed, gzFed, gzZr, gzEnded, gzOut, gzRaised>>
    /\ UNCHANGED exceptGZip

\* GZipCoder.write_flush()
GZipWriteFlush ==
    /\ ~gzFlushed
    /\ gzFlushed' = TRUE
    /\ gzWire' = IF gzZw THEN gzWire \o Finish ELSE gzWire
    /\ UNCHANGED <<gzWrites, gzZw, gzFed, gzZr, gzEnded, gzOut, gzRaised>>
    /\ UNCHANGED exceptGZip

\* GZipCoder.incoming(ctx, data) with ctx.state == 'RAW', with the next k
\* of what was written.
GZipIncomingRaw(k) ==
    /\ gzFlushed /\ ~gzEnded
    /\ gzRaised = ""
    /\ k >= 1 /\ gzFed + k <= Len(gzWire)
    /\ LET r == Decompress(IF gzZr = "None" THEN "header" ELSE gzZr,
                           SubSeq(gzWire, gzFed + 1, gzFed + k), <<>>)
       IN  /\ gzZr' = r.at
           /\ gzRaised' = r.raised
           /\ gzOut' = IF r.raised = ""
                       THEN Append(gzOut, [state |-> "RAW", data |-> r.out])
                       ELSE gzOut
    /\ gzFed' = gzFed + k
    /\ UNCHANGED <<gzWrites, gzZw, gzWire, gzFlushed, gzEnded>>
    /\ UNCHANGED exceptGZip

\* GZipCoder.incoming(ctx) with ctx.state == 'END': rest = self._zr.flush()
\* (nothing is held back by the decompressobj here), then END goes on.
GZipIncomingEnd ==
    /\ gzFlushed /\ ~gzEnded
    /\ gzRaised = ""
    /\ gzFed = Len(gzWire)
    /\ gzEnded' = TRUE
    /\ IF gzZr = "None"
       THEN gzRaised' = "AttributeError" /\ UNCHANGED gzOut
       ELSE /\ gzOut' = Append(gzOut, [state |-> "END", data |-> <<>>])
            /\ UNCHANGED gzRaised
    /\ UNCHANGED <<gzWrites, gzZw, gzWire, gzFlushed, gzFed, gzZr>>
    /\ UNCHANGED exceptGZip

GZipStep ==
    \/ \E data \in Datas : GZipWrite(data)
    \/ GZipWriteFlush
    \/ \E k \in 1 .. Len(gzWire) : GZipIncomingRaw(k)
    \/ GZipIncomingEnd

(***************************************************************************)
(*          PART 14: the bytes of Stream.write (asyn/selectable.py)        *)
(***************************************************************************)

\* Bounds of the stream write model.
MaxWritten == 3     \* bytes given to write(), over all its calls
MaxErrors == 1      \* os.write calls that fail with an error other than EAGAIN

\* What os.write(fd, buf) can do with a buffer that is not empty: take
\* some first bytes of it, raise OSError with errno EAGAIN, raise another
\* OSError.
OsWrite(buf) ==
    {[r |-> "written", n |-> k] : k \in 1 .. Len(buf)}
    \cup {[r |-> "EAGAIN", n |-> 0], [r |-> "EPIPE", n |-> 0]}

\* No call of os.write: the buffer is empty.
NoWrite == [r |-> "none", n |-> 0]

WriteInit ==
    /\ swBuf = <<>>
    /\ swShutdown = FALSE
    /\ swOpen = TRUE
    /\ swOut = <<>>
    /\ swArgs = <<>>
    /\ swAccepted = <<>>
    /\ swLast = "none"

\* Stream._wants_write: return self._wbuf
StreamWantsWrite(buf) == buf # <<>>

\* self._wbuf = self._wbuf[written:]
Resent(buf, written) == buf
Unsent(buf, written) == From(buf, written)

\* Stream._can_write with the buffer buf, where os.write does o.
CanWriteBytes(buf, o) ==
    /\ o \in (IF buf # <<>> THEN OsWrite(buf) ELSE {NoWrite})
    /\ o.r = "EPIPE" => Len(swOut) < MaxErrors
    /\ swLast' = o.r
    /\ swBuf' = IF o.r = "written" THEN Unsent(buf, o.n) ELSE buf
    /\ swAccepted' = IF o.r = "written" THEN swAccepted \o UpTo(buf, o.n)
                     ELSE swAccepted
    /\ IF o.r = "EPIPE"
       THEN /\ swOut' = Append(swOut, [state |-> "ERROR"])
            /\ UNCHANGED swOpen
       ELSE IF o.r # "EAGAIN" /\ swBuf' = <<>> /\ swShutdown'
       THEN /\ swOut' = Append(swOut, [state |-> "CLOSE"])
            /\ swOpen' = FALSE
       ELSE UNCHANGED <<swOut, swOpen>>

\* Stream.write(whatever)
WriteBytes(whatever, o) ==
    /\ swOpen /\ ~swShutdown
    /\ Len(swArgs) + Len(whatever) <= MaxWritten
    /\ swArgs' = swArgs \o whatever
    /\ UNCHANGED swShutdown
    /\ CanWriteBytes(swBuf \o whatever, o)
    /\ UNCHANGED exceptWrite

\* Stream._can_write, called by run() for a Stream that wants to write.
WritableBytes(o) ==
    /\ swOpen
    /\ StreamWantsWrite(swBuf)
    /\ UNCHANGED <<swArgs, swShutdown>>
    /\ CanWriteBytes(swBuf, o)
    /\ UNCHANGED exceptWrite

\* Stream.shutdown()
ShutdownBytes(o) ==
    /\ swOpen /\ ~swShutdown
    /\ swShutdown' = TRUE
    /\ UNCHANGED swArgs
    /\ CanWriteBytes(swBuf, o)
    /\ UNCHANGED exceptWrite

\* The results of os.write there are in this model.
OsWrites ==
    {[r |-> "written", n |-> k] : k \in 1 .. MaxWritten}
    \cup {[r |-> "EAGAIN", n |-> 0], [r |-> "EPIPE", n |-> 0], NoWrite}

WriteStep ==
    \/ \E j \in 0 .. MaxWritten : \E whatever \in [1 .. j -> Payload] :
          \E o \in OsWrites : WriteBytes(whatever, o)
    \/ \E o \in OsWrites : WritableBytes(o)
    \/ \E o \in OsWrites : ShutdownBytes(o)

(***************************************************************************)
(*        PART 15: replacing the scanner of a Scannable (asyn/scan.py)     *)
(***************************************************************************)

\* Bounds of the scanner replacement model.
MaxPasses == 2      \* _scan calls
MaxPass == 2        \* bytes given to one _scan call

\* The scanners there are: None, and a Regex of one rule.
Scanners == {<<>>} \cup {<<r>> : r \in Rules}

\* What an observer does in a _scan call: at its at-th callout of the call
\* it sets scan to the scanner to (never, when at is 0).
Swaps == [at : 0 .. 2, to : Scanners]

SwapInit ==
    /\ xScan = <<>>
    /\ xRbuf = <<>>
    /\ xOut = <<>>
    /\ xPasses = 0

\* The scanner after the n-th callout of the call.
Swapped(scan, n, swap) == IF n = swap.at THEN swap.to ELSE scan

\* The loop of Scannable._scan: self.scan is read anew in every turn; st is
\* scan, _rbuf, the contexts called out and the number of callouts.
RECURSIVE SwapLoop(_, _, _)
SwapLoop(st, swap, pass) ==
    IF st.rbuf = <<>> THEN st
    ELSE IF st.scan = <<>>
    THEN [st EXCEPT !.rbuf = <<>>,
                    !.scan = Swapped(st.scan, st.n + 1, swap),
                    !.n = st.n + 1,
                    !.out = Append(st.out, [by |-> <<>>, state |-> "RAW",
                                            data |-> <<st.rbuf>>,
                                            pass |-> pass])]
    ELSE LET result == RegexScan(st.scan, st.rbuf)
             n == st.n + Len(result.event)
         IN  IF ~result.matched THEN st
             ELSE SwapLoop(
                    [scan |-> IF result.event # <<>>
                              THEN Swapped(st.scan, n, swap) ELSE st.scan,
                     rbuf |-> result.remains,
                     n |-> n,
                     out |-> st.out \o
                             [i \in 1 .. Len(result.event) |->
                                 [by |-> st.scan,
                                  state |-> result.event[i].state,
                                  data |-> result.event[i].groups,
                                  pass |-> pass]]],
                    swap, pass)

\* self.scan = scanner, between two _scan calls.
SwapBetween(to) ==
    /\ xScan # to
    /\ xPasses < MaxPasses
    /\ xScan' = to
    /\ UNCHANGED <<xRbuf, xOut, xPasses>>
    /\ UNCHANGED exceptSwap

\* Scannable._scan(data), with what an observer does during the call.
SwapScan(data, swap) ==
    /\ xPasses < MaxPasses
    /\ data # <<>>
    /\ xPasses' = xPasses + 1
    /\ LET st == SwapLoop([scan |-> xScan, rbuf |-> xRbuf \o data, n |-> 0,
                           out |-> xOut], swap, xPasses')
       IN  /\ swap.at \in 0 .. st.n
           /\ xScan' = st.scan
           /\ xRbuf' = st.rbuf
           /\ xOut' = st.out
    /\ UNCHANGED exceptSwap

SwapStep ==
    \/ \E to \in Scanners : SwapBetween(to)
    \/ \E data \in Strings(MaxPass), swap \in Swaps : SwapScan(data, swap)

(***************************************************************************)
(*            PART 16: FilterCallable (asyn/selectable.py)                 *)
(***************************************************************************)

\* Bounds of the filter model.
MaxFilters == 2     \* FilterCallables that can be constructed
MaxEmits == 1       \* contexts the Stream calls out by itself
MaxFilterCloses == 2 \* close() calls user code makes on filters

Nodes == 1 .. MaxFilters + 1
Filters == 2 .. MaxFilters + 1

FilterInit ==
    /\ fUp = [f \in Nodes |-> 0]
    /\ fCb = [n \in Nodes |-> <<>>]
    /\ fOpen = TRUE
    /\ fFile = TRUE
    /\ fBy = [f \in Nodes |-> ""]
    /\ fGot = [f \in Nodes |-> <<>>]
    /\ fSent = [n \in Nodes |-> <<>>]
    /\ fClosed = 0
    /\ fCloses = 0

\* The fields the calls below read and write.
Chain == [up |-> fUp, cb |-> fCb, open |-> fOpen, file |-> fFile,
          got |-> fGot, sent |-> fSent]

SetChain(S) ==
    /\ fUp' = S.up
    /\ fCb' = S.cb
    /\ fOpen' = S.open
    /\ fFile' = S.file
    /\ fGot' = S.got
    /\ fSent' = S.sent

\* Is incoming of filter f registered on node n.
Hooked(cb, n, f) == \E i \in 1 .. Len(cb[n]) : cb[n][i] = f

\* Callable.add_callout(callee) and remove_callout(callee, required=False)
\* on node n.
AddHook(S, n, f) == [S EXCEPT !.cb[n] = Append(@, f)]
RemoveHook(S, n, f) == [S EXCEPT !.cb[n] = ListRemove(@, f)]

RECURSIVE CalloutTo(_, _, _), Incoming(_, _, _), FilterCloseOf(_, _)
RECURSIVE NodeClose(_, _)

\* Callable.callout(ctx) of node n: its latched callbacks are called.
NodeCallout(S, n, state) ==
    CalloutTo([S EXCEPT !.sent[n] = Append(@, state)], S.cb[n], state)

\* ... one after the other; an observer that is no filter does nothing.
CalloutTo(S, latch, state) ==
    IF latch = <<>> THEN S
    ELSE CalloutTo(IF Head(latch) = 0 THEN S
                   ELSE Incoming(S, Head(latch), state),
                   Tail(latch), state)

\* FilterCallable.incoming(ctx, data) of filter f.
Incoming(S, f, state) ==
    LET T == [S EXCEPT !.got[f] = Append(@, state)]
    IN  IF state = "ERROR" THEN NodeCallout(T, f, state)
        ELSE IF state = "END"
        THEN NodeCallout(FilterCloseOf(T, f), f, state)
        ELSE IF state = "RAW" THEN NodeCallout(T, f, state)
        ELSE T

\* The upstream is left as it is.
KeepsUpstream(S, n) == S

\* upstream.close(): of the Stream (CLOSE is called out, the Stream is
\* removed from its Controller, the I/O object is closed) or of a filter.
NodeClose(S, n) ==
    IF n = 1
    THEN [(IF S.open THEN NodeCallout(S, 1, "CLOSE") ELSE S)
             EXCEPT !.open = FALSE, !.file = FALSE]
    ELSE FilterCloseOf(S, n)

\* FilterCallable.close() of filter f.
FilterCloseOf(S, f) ==
    IF S.up[f] # 0
    THEN [NodeClose(RemoveHook(S, S.up[f], f), S.up[f]) EXCEPT !.up[f] = 0]
    ELSE S

\* FilterCallable.open(source, callout), also as the constructor calls it:
\* the callout is added to the filter's own callbacks.
FilterOpen(f, source, callout) ==
    /\ fBy[f] = ""
    /\ \A g \in Filters : g < f => fBy[g] # ""
    /\ source = 1 \/ fBy[source] # ""
    /\ fUp' = [fUp EXCEPT ![f] = source]
    /\ fCb' = IF callout THEN [fCb EXCEPT ![f] = Append(@, 0)] ELSE fCb
    /\ fBy' = [fBy EXCEPT ![f] = "open"]
    /\ UNCHANGED <<fOpen, fFile, fGot, fSent, fClosed, fCloses>>
    /\ UNCHANGED exceptFilter

\* filter.upstream.add_callout(filter.incoming), as user code does it.
FilterRegister(f) ==
    /\ fUp[f] # 0
    /\ ~Hooked(fCb, fUp[f], f)
    /\ fCb' = [fCb EXCEPT ![fUp[f]] = Append(@, f)]
    /\ UNCHANGED <<fUp, fOpen, fFile, fBy, fGot, fSent, fClosed, fCloses>>
    /\ UNCHANGED exceptFilter

\* h.insert_filter(filter_class): the new filter f.
InsertFilter(h, f) ==
    /\ fUp[h] # 0
    /\ fBy[f] = ""
    /\ \A g \in Filters : g < f => fBy[g] # ""
    /\ LET u == fUp[h]
           S == RemoveHook(AddHook(Chain, u, f), u, h)
       IN  SetChain([S EXCEPT !.up[f] = u, !.up[h] = f])
    /\ fBy' = [fBy EXCEPT ![f] = "insert"]
    /\ UNCHANGED <<fClosed, fCloses>>
    /\ UNCHANGED exceptFilter

\* The Stream calls out RAW or ERROR from _can_read, or END from
\* _null_read, which then closes the Stream.
StreamEmits(state) ==
    /\ fOpen
    /\ Len(fSent[1]) < MaxEmits
    /\ SetChain(IF state = "END"
                THEN NodeClose(NodeCallout(Chain, 1, state), 1)
                ELSE NodeCallout(Chain, 1, state))
    /\ UNCHANGED <<fBy, fClosed, fCloses>>
    /\ UNCHANGED exceptFilter

\* User code calls f.close().
FilterClose(f) ==
    /\ fBy[f] # ""
    /\ fCloses < MaxFilterCloses
    /\ fCloses' = fCloses + 1
    /\ fClosed' = f
    /\ SetChain(FilterCloseOf(Chain, f))
    /\ UNCHANGED fBy
    /\ UNCHANGED exceptFilter

FilterStep ==
    \/ \E f \in Filters, source \in Nodes, callout \in BOOLEAN :
          source # f /\ FilterOpen(f, source, callout)
    \/ \E f \in Filters : FilterRegister(f)
    \/ \E h, f \in Filters : h # f /\ InsertFilter(h, f)
    \/ \E state \in {"RAW", "ERROR", "END"} : StreamEmits(state)
    \/ \E f \in Filters : FilterClose(f)

(***************************************************************************)
(*               PART 17: TCPListener (asyn/resolve.py)                    *)
(***************************************************************************)

\* Bounds of the listener model.
MaxRes == 2             \* address records a TCPListener is given
MaxListenerCalls == 5   \* listen(), accepting() and close() calls
MaxAccepts == 2         \* connections that come in

Res == 1 .. MaxRes

\* A TCPListener constructed with all the address records, all bound:
\* __init__ calls listen(res), which calls accepting(True).
ListenInit ==
    /\ lBound = Res
    /\ lHooks = [r \in Res |-> 1]
    /\ lActive = TRUE
    /\ lAccepts = 0
    /\ lCalls = 0

\* if allow != self.active:
Always(allow, active) == TRUE
Differs(allow, active) == allow # active

\* TCPListener.accepting(allow) with these listeners, hooks and active:
\* the hooks and active it leaves.
AcceptingOf(bound, hooks, active, allow) ==
    IF Differs(allow, active)
    THEN [hooks |-> [r \in Res |->
                        IF r \in bound
                        THEN IF allow THEN hooks[r] + 1
                             ELSE IF hooks[r] > 0 THEN hooks[r] - 1 ELSE 0
                        ELSE hooks[r]],
          active |-> allow]
    ELSE [hooks |-> hooks, active |-> active]

\* TCPListener.close(): every Listener is closed, none is left.
TCPListenerClose ==
    /\ lCalls < MaxListenerCalls
    /\ lCalls' = lCalls + 1
    /\ lBound' = {}
    /\ lHooks' = [r \in Res |-> 0]
    /\ lActive' = FALSE
    /\ UNCHANGED lAccepts
    /\ UNCHANGED exceptListen

\* TCPListener.listen(reslist, allow), where the records of ok can be bound:
\* close(), a new Listener for each of those, then accepting(allow) if
\* there is one.
TCPListenerListen(ok, allow) ==
    /\ lCalls < MaxListenerCalls
    /\ lCalls' = lCalls + 1
    /\ lBound' = ok
    /\ LET a == AcceptingOf(ok, [r \in Res |-> 0], FALSE, allow)
       IN  IF ok # {}
           THEN lHooks' = a.hooks /\ lActive' = a.active
           ELSE lHooks' = [r \in Res |-> 0] /\ lActive' = FALSE
    /\ UNCHANGED lAccepts
    /\ UNCHANGED exceptListen

\* TCPListener.accepting(allow)
TCPListenerAccepting(allow) ==
    /\ lCalls < MaxListenerCalls
    /\ lCalls' = lCalls + 1
    /\ LET a == AcceptingOf(lBound, lHooks, lActive, allow)
       IN  lHooks' = a.hooks /\ lActive' = a.active
    /\ UNCHANGED <<lBound, lAccepts>>
    /\ UNCHANGED exceptListen

\* Listener._can_read of the Listener of r, which run() calls when the
\* Listener wants to read (it has callouts) and a connection has come in:
\* each _accept in its callbacks calls 'accept' out from the TCPListener.
ListenerCanRead(r) ==
    /\ r \in lBound
    /\ lHooks[r] > 0
    /\ lAccepts + lHooks[r] <= MaxAccepts
    /\ lAccepts' = lAccepts + lHooks[r]
    /\ UNCHANGED <<lBound, lHooks, lActive, lCalls>>
    /\ UNCHANGED exceptListen

ListenStep ==
    \/ TCPListenerClose
    \/ \E ok \in SUBSET Res, allow \in BOOLEAN : TCPListenerListen(ok, allow)
    \/ \E allow \in BOOLEAN : TCPListenerAccepting(allow)
    \/ \E r \in Res : ListenerCanRead(r)

(***************************************************************************)
(*          PART 18: how often a Stream is closed (asyn/selectable.py)     *)
(***************************************************************************)

\* Bounds of the close counting model.
MaxIoCalls == 5     \* calls made on the Stream

\* What an observer does when it is called with END, and with the first
\* CLOSE: nothing, close() or shutdown() on that Stream.
Reactions == {"none", "close", "shutdown"}

\* What os.write does in _can_write: it takes all of the buffer, or raises
\* OSError with EAGAIN.
IoWrites == {"all", "EAGAIN"}

IoInit ==
    /\ ioKind = "none"
    /\ ioControl = FALSE
    /\ ioShut = FALSE
    /\ ioPend = FALSE
    /\ ioFile = FALSE
    /\ ioRaised = ""
    /\ ioCloses = 0
    /\ ioRemoves = 0
    /\ ioOsCloses = 0
    /\ ioCalls = 0

\* The fields the calls below read and write.
Io ==
    [control |-> ioControl, shut |-> ioShut, pend |-> ioPend,
     file |-> ioFile, raised |-> ioRaised, closes |-> ioCloses,
     removes |-> ioRemoves, os |-> ioOsCloses]

SetIo(S) ==
    /\ ioControl' = S.control
    /\ ioShut' = S.shut
    /\ ioPend' = S.pend
    /\ ioFile' = S.file
    /\ ioRaised' = S.raised
    /\ ioCloses' = S.closes
    /\ ioRemoves' = S.removes
    /\ ioOsCloses' = S.os

\* self.io.close(): _IOW.close does os.close(self.fd) every time, and
\* os.close of a descriptor that is closed raises OSError; a file object
\* closes its descriptor the first time only.
IoFileClose(S) ==
    IF ioKind = "int"
    THEN [S EXCEPT !.os = @ + 1, !.file = FALSE,
                   !.raised = IF S.file THEN "" ELSE "OSError"]
    ELSE IF S.file THEN [S EXCEPT !.os = @ + 1, !.file = FALSE]
    ELSE S

RECURSIVE IoClose(_, _), IoCanWrite(_, _, _)

\* Stream.shutdown(): self._shutdown = True; self._can_write()
IoShutdown(S, onClose, out) ==
    IoCanWrite([S EXCEPT !.shut = TRUE], onClose, out)

\* What the observers do when they are called with END or CLOSE.
React(S, reaction, onClose, out) ==
    IF reaction = "close" THEN IoClose(S, onClose)
    ELSE IF reaction = "shutdown" THEN IoShutdown(S, onClose, out)
    ELSE S

\* Stream.close(): Selectable.close (if self.control: call out CLOSE,
\* self.control.remove(self), self.control = None), then self.io.close().
IoClose(S, onClose) ==
    LET called == React([S EXCEPT !.closes = @ + 1], onClose, "none", "all")
        closed ==
            IF ~S.control THEN S
            ELSE IF called.raised # "" THEN called
            ELSE IF ~called.control
            THEN [called EXCEPT !.raised = "AttributeError"]
            ELSE [called EXCEPT !.removes = @ + 1, !.control = FALSE]
    IN  IF closed.raised # "" THEN closed ELSE IoFileClose(closed)

\* Stream._can_write(): an OSError other than EAGAIN raised inside it, also
\* by close(), is called out as an ERROR.
IoCanWrite(S, onClose, out) ==
    IF S.pend /\ out = "EAGAIN" THEN S
    ELSE LET T == [S EXCEPT !.pend = FALSE]
             U == IF T.shut THEN IoClose(T, onClose) ELSE T
         IN  IF U.raised = "OSError" THEN [U EXCEPT !.raised = ""] ELSE U

\* Stream._null_read(): self.callout(END); self.close()
IoNullRead(S, onEnd, onClose, out) ==
    LET called == React(S, onEnd, onClose, out)
    IN  IF called.raised # "" THEN called ELSE IoClose(called, onClose)

\* The Stream is constructed, on a descriptor number or on a file object.
IoConstruct(k) ==
    /\ ioKind = "none"
    /\ ioKind' = k
    /\ ioControl' = TRUE
    /\ ioFile' = TRUE
    /\ UNCHANGED <<ioShut, ioPend, ioRaised, ioCloses, ioRemoves,
                   ioOsCloses, ioCalls>>
    /\ UNCHANGED exceptIo

\* A call on the Stream that is there, when no exception has been raised.
IoCall ==
    /\ ioKind # "none"
    /\ ioRaised = ""
    /\ ioCalls < MaxIoCalls
    /\ ioCalls' = ioCalls + 1
    /\ UNCHANGED ioKind
    /\ UNCHANGED exceptIo

\* stream.write(data) when os.write does out.
IoWrite(out) ==
    /\ IoCall
    /\ ioControl /\ ~ioShut
    /\ SetIo(IoCanWrite([Io EXCEPT !.pend = TRUE], "none", out))

\* stream.close(), by user code or by Controller.close() for a Stream that
\* is in its map.
IoUserClose(onClose) ==
    /\ IoCall
    /\ SetIo(IoClose(Io, onClose))

\* stream.shutdown()
IoUserShutdown(onClose, out) ==
    /\ IoCall
    /\ SetIo(IoShutdown(Io, onClose, out))

\* run() calls _can_read of the Stream, which is in the map, and os.read
\* returns no bytes.
IoEndOfInput(onEnd, onClose, out) ==
    /\ IoCall
    /\ ioControl
    /\ SetIo(IoNullRead(Io, onEnd, onClose, out))

\* run() calls _can_write of the Stream, which wants to write.
IoWritable(onClose, out) ==
    /\ IoCall
    /\ ioControl /\ ioPend
    /\ SetIo(IoCanWrite(Io, onClose, out))

IoStep ==
    \/ \E k \in {"int", "file"} : IoConstruct(k)
    \/ \E out \in IoWrites : IoWrite(out)
    \/ \E onClose \in Reactions : IoUserClose(onClose)
    \/ \E onClose \in Reactions, out \in IoWrites :
          IoUserShutdown(onClose, out)
    \/ \E onEnd, onClose \in Reactions, out \in IoWrites :
          IoEndOfInput(onEnd, onClose, out)
    \/ \E onClose \in Reactions, out \in IoWrites : IoWritable(onClose, out)

(***************************************************************************)
(*                           Specifications                                *)
(***************************************************************************)

Init ==
    /\ TimerInit /\ CallableInit /\ InjectInit /\ ConnectorInit
    /\ CalloutInit /\ DescInit /\ LoopInit /\ ScanInit
    /\ LimitInit
    /\ BatchInit
    /\ DatagramInit
    /\ ChunkInit
    /\ GZipInit
    /\ WriteInit
    /\ SwapInit
    /\ FilterInit
    /\ ListenInit
    /\ IoInit

\* The timers, with new Scheduled objects and cancellations only.
SpecTimerFresh ==
    Init /\ [][FreshTimerStep]_vars

\* The timers, all operations.
SpecTimer ==
    Init /\ [][TimerStep]_vars

\* The callback funnel: registrations, callouts and their results.
SpecCallable ==
    Init /\ [][CallableStep]_vars

\* The callback funnel: registrations changed during callouts.
SpecEmit ==
    Init /\ [][EmitStep]_vars

\* The injection queue: a running reactor and the threads that inject.
SpecInject ==
    Init /\ [][InjectStep]_vars

\* A TCPConnector, the connects of its candidates, and close().
SpecConnector ==
    Init /\ [][ConnectorStep]_vars

\* The reactor loop with its timers and its injection queue, and the
\* threads that call inject, inject_wait and inject_callout.
SpecCallout ==
    Init /\ [][CalloutStep]_vars

\* A Controller and its descriptor objects: construction, close() and
\* Controller.close().
SpecDesc ==
    Init /\ [][DescStep]_vars

\* run() with its periodic callout, its two passes and its poll step.
SpecLoop ==
    Init /\ [][LoopStep]_vars

\* A Scannable fed in chunks.
SpecScan ==
    Init /\ [][ScanStep]_vars

\* A Scannable with a ByteLimit, fed in chunks.
SpecLimit ==
    Init /\ [][LimitStep]_vars

\* Descriptor objects and Connectors in the I/O callbacks of run().
SpecBatch ==
    Init /\ [][BatchStep]_vars

\* A Datagram in the I/O callbacks of run(), and its write().
SpecDgram ==
    Init /\ [][DatagramStep]_vars

\* A ChunkedCoder's writes, read back by a ChunkedCoder.
SpecChunk ==
    Init /\ [][ChunkStep]_vars

\* A GZipCoder's writes, read back by a GZipCoder.
SpecGZip ==
    Init /\ [][GZipStep]_vars

\* The write buffer of a Stream: write(), the writable events, shutdown().
SpecWrite ==
    Init /\ [][WriteStep]_vars

\* A Scannable whose scanner is replaced during and between _scan calls.
SpecSwap ==
    Init /\ [][SwapStep]_vars

\* FilterCallables opened and inserted over a Stream, and closed.
SpecFilter ==
    Init /\ [][FilterStep]_vars

\* A TCPListener: listen(), accepting(), close(), and connections coming in.
SpecListen ==
    Init /\ [][ListenStep]_vars

\* One Stream: close(), shutdown(), end of input, and what its observers
\* do when they are called with END and CLOSE.
SpecIo ==
    Init /\ [][IoStep]_vars

\* The reactor thread and the threads that call inject().
PostStep ==
    \/ \E t \in Threads : Post(t)
    \/ \E t \in Threads : Write(t)
    \/ CanRead
    \/ DrainNext
    \/ \E ending \in Endings : Call(ending)

\* Calls of inject() where every thread goes on: run() keeps looping
\* (select() returns when the pipe is readable, the drain goes on, a call
\* that was begun ends), and a thread inside post() gets to write its
\* wake-up byte.
SpecInjectFair ==
    /\ Init /\ [][PostStep]_vars
    /\ WF_vars(CanRead)
    /\ WF_vars(DrainNext)
    /\ WF_vars(\E ending \in Endings : Call(ending))
    /\ \A t \in Threads : WF_vars(Write(t))

\* Streams: the read and write handlers that run() calls, and shutdown().
SpecStream ==
    Init /\ [][StreamStep]_vars

(***************************************************************************)
(*                         Claims about the timers                         *)
(***************************************************************************)

\* A callout for timer t begins in this step.
CalledOut(t) == ctx = NoCtx /\ ctx' # NoCtx /\ ctx'.sched = t

Entries(q, t) == Cardinality({i \in 1 .. Len(q) : q[i] = t})

\* C3: once cancel() has cleared a timer's fire time (and schedule() has
\* not set it again), no callout is made for the timer; cancel() leaves the
\* timer's entry in the queue, and the entry leaves the queue only from its
\* head, dropped by _dispatch without a callout.
C3_CancelledNeverFires ==
    [][\A t \in Timers :
          /\ CalledOut(t) => when[t] # None
          /\ (when[t] # None /\ when'[t] = None) => schedq' = schedq
          /\ (when[t] = None /\ when'[t] = None
                /\ Entries(schedq', t) < Entries(schedq, t))
                => /\ schedq[1] = t
                   /\ schedq' = heappop(schedq, when)
                   /\ ctx' = NoCtx]_vars

\* C3 happens: a running dispatch pass, about to look at the head of the
\* queue, finds there the entry of a timer that was cancelled.
C3_Witness ==
    /\ tpc \in {"dispatch1", "dispatch2"}
    /\ running /\ ctx = NoCtx /\ backstop > 0
    /\ schedq # <<>>
    /\ when[schedq[1]] = None
    /\ now > 0

\* C4: a timer whose fire time was set by ctx.reschedule(after=d), in n
\* callouts in a row, fires at the time it was first dispatched for plus the
\* n delays (n*d when they are all d), however late each dispatch was.
C4_NoDrift ==
    \A t \in Timers :
        (base[t].exp # None /\ when[t] # None) => when[t] = base[t].exp

\* C4 happens: a timer is rescheduled for the second time in a row, later
\* than the fire time it was dispatched for.
C4_Witness ==
    /\ ctx # NoCtx
    /\ now > ctx.when
    /\ base[ctx.sched].n = 2
    /\ when[ctx.sched] = base[ctx.sched].exp
    /\ when[ctx.sched] > ctx.when

(***************************************************************************)
(*                     Claims about the callback funnel                    *)
(***************************************************************************)

\* C5: an emit calls exactly the observers that were registered when it
\* began, each registration once: what it has called so far is the start
\* of that list, and when it returns it has called the whole list, whatever
\* registrations the observers changed meanwhile.
C5_EmitCallsSnapshot ==
    /\ cpc = "emitting" => /\ idx <= Len(atStart)
                           /\ calledSeq = SubSeq(atStart, 1, idx)
    /\ cpc = "returned" => calledSeq = atStart

\* C5 happens: an emit has returned during which an observer added one that
\* was not registered and removed one that had not been called yet.
C5_Witness ==
    /\ cpc = "returned"
    /\ removedDue
    /\ Len(atStart) >= 2
    /\ \E i \in 1 .. Len(callbacks) : ~InList(atStart, callbacks[i])

\* The first true value of a list of results.
RECURSIVE FirstTruthy(_)
FirstTruthy(rs) ==
    IF rs = <<>> THEN None
    ELSE IF Truthy(Head(rs)) THEN Head(rs) ELSE FirstTruthy(Tail(rs))

\* C6 as stated: the observers are called in registration order, and the
\* callout returns the first true result, None when there is none (the
\* list of all results under the None reducer).
C6_FirstTruthyOrNone ==
    cpc = "returned" =>
        /\ calledSeq = atStart
        /\ ret.kind = "value" => ret.v = FirstTruthy(results)
        /\ ret.kind = "list" => ret.l = results

\* C6, amended: the observers are called in registration order, and the
\* callout returns the first true result; when no result is true it returns
\* the last observer's result (None when no observer is registered); under
\* the None reducer it returns the list of all results in call order.
C6_FirstTruthyOrLast ==
    cpc = "returned" =>
        /\ calledSeq = atStart
        /\ Len(results) = Len(calledSeq)
        /\ ret.kind = "value" =>
              ret.v = IF \E i \in 1 .. Len(results) : Truthy(results[i])
                      THEN FirstTruthy(results)
                      ELSE IF results = <<>> THEN None
                      ELSE results[Len(results)]
        /\ ret.kind = "list" => ret.l = results

\* C6 happens: a callout of two observers has returned the first true
\* result, the second result being another true value.
C6_Witness ==
    /\ cpc = "returned"
    /\ Len(calledSeq) = 2 /\ calledSeq[1] # calledSeq[2]
    /\ results = <<1, 2>>
    /\ ret = RetValue(1)

(***************************************************************************)
(*                     Claims about the injection queue                    *)
(***************************************************************************)

\* C1: inject_wait, called in a thread other than the reactor's while the
\* reactor runs, returns only after the reactor has made the call, and then
\* returns exactly the value the call returned or raises exactly the
\* exception it raised, whatever the value; and it is not left blocked in
\* cond.wait() once the call has been made.
C1_InjectWaitReturns ==
    /\ wpc = "done" => (outcome # NoOutcome /\ wret = outcome)
    /\ ~(wpc = "waiting" /\ outcome # NoOutcome)

\* The calls 1 .. n in the order they were appended.
Ranks(n) == [i \in 1 .. n |-> i]

\* The call in execution, as a sequence.
InFlight == IF cur = 0 THEN <<>> ELSE <<cur>>

\* C9: the calls posted to the queue are executed once each, in the order
\* they were appended: the calls executed, the call in execution and the
\* calls still queued are, in this order, all the calls appended.  A drain
\* pass returns only when it finds the queue empty.
C9_FifoExactlyOnce ==
    [][ /\ executed' \o InFlight' \o iq' = Ranks(nCalls')
        /\ (rpc = "drain" /\ rpc' = "select") => iq = <<>> ]_vars

\* C9 happens: a drain pass is over that executed two calls at least, one
\* of them appended by another thread while the pass ran.
C9_Witness ==
    /\ rpc = "select"
    /\ late
    /\ Len(executed) - passStart >= 2
    /\ Len(executed) = nCalls

\* An exception derived from Exception was swallowed in the current pass.
SwallowedInPass == swallowed > passStart

AllFailed ==
    /\ tstate = "built"
    /\ nCloses = 0
    /\ candidates = <<>>
    /\ cmap = {}
    /\ \A k \in 1 .. Len(res) : res[k] # "connects"

\* C7: when all the candidates of a TCPConnector have failed, at connect()
\* or later through the socket's error, its observers have been sent one
\* event and no more: an ERROR with the error of the candidate tried last.
\* While candidates that fail remain to be tried, they have been sent none.
C7_OneErrorLastFailure ==
    /\ AllFailed => emitted = <<Error(Len(res))>>
    /\ (nCloses = 0 /\ ~AllFailed /\ \A k \in 1 .. Len(res) : res[k] # "connects")
          => emitted = <<>>

\* C7 happens: three candidates have failed, the first when its socket
\* became writable, the second at connect(), the third when its socket
\* became writable.
C7_Witness ==
    /\ AllFailed
    /\ res = <<"asyncfail", "syncfail", "asyncfail">>
    /\ emitted = <<Error(3)>>

\* C8: a close() made while an attempt is in flight leaves no Connector in
\* the Controller and calls out CANCELLED, once; no 'connected' and no
\* ERROR is called out after it.
C8_CloseCancels ==
    closedAt > 0 =>
        /\ cmap = {}
        /\ Len(emitted) >= closedAt
        /\ emitted[closedAt] = CANCELLED
        /\ \A i \in closedAt + 1 .. Len(emitted) :
               emitted[i].state \notin {"connected", "ERROR", "CANCELLED"}

(***************************************************************************)
(*                Claims about inject_callout and the loop                 *)
(***************************************************************************)

\* This step is one of a thread that injects: a thread in _Inject.post, the
\* thread in inject_wait or the thread in inject_callout moves on (and is
\* not just woken by the reactor's notify).
InjectorStep ==
    \/ poster' # poster
    \/ wpc' # wpc /\ wpc # "waiting"
    \/ icpc' # icpc /\ icpc # "waiting"

\* C11: while run() is executing, a step of a thread that injects leaves the
\* timer heap as it is: inject, inject_wait and inject_callout, with a
\* timeout or without, change the heap in the reactor thread only.
C11_HeapOwnedByReactor ==
    [][(Running /\ InjectorStep) => schedq' = schedq]_vars

(***************************************************************************)
(*                   Claims about the descriptor objects                   *)
(***************************************************************************)

\* This step calls out a context of this state to the observers of o.
Sent(o, state) ==
    /\ Len(events'[o]) > Len(events[o])
    /\ events'[o][Len(events[o]) + 1] = state

\* Object o is not in the Controller: no key of its map, no control.
Deregistered(o) == ~ocontrol[o] /\ fdmap[ofd[o]] # o

C13_ErrorCloses ==
    [][\A o \in Objects : Sent(o, "ERROR") => Deregistered(o)']_vars

\* C14: a step of the Stream's own handlers that closes a Stream on which
\* shutdown() has been called leaves no byte in its write buffer.
C14_ShutdownFlushes ==
    [][\A o \in Objects :
          (shut'[o] /\ ocontrol[o] /\ ~ocontrol'[o]) => wbuf'[o] = 0]_vars

\* C15: the Controller's map never holds an object whose OS descriptor is
\* closed: close() takes the object out of the map before it closes the
\* descriptor.
C15_RemovedBeforeClosed ==
    \A fd \in FDs : fdmap[fd] # 0 => fdOpen[fdmap[fd]]

\* C16: when no constructor and no close() is in progress, every key fd of
\* the map holds an object whose fileno() is fd and whose control is the
\* Controller; every object constructed and not closed is under one key
\* exactly; an object whose close() has run to its end has no control and
\* is under no key.
C16_MapConsistent ==
    Quiet =>
        /\ \A fd \in FDs : fdmap[fd] # 0 =>
               ofd[fdmap[fd]] = fd /\ ocontrol[fdmap[fd]]
        /\ \A o \in Objects : (kind[o] # "none" /\ o \notin closedObjs) =>
               Cardinality({fd \in FDs : fdmap[fd] = o}) = 1
        /\ \A o \in closedObjs :
               ~ocontrol[o] /\ \A fd \in FDs : fdmap[fd] # o

\* C16 happens: an object was closed and another one, constructed since on
\* the same descriptor number, is in the map.
C16_Witness ==
    /\ Quiet
    /\ \E o \in closedObjs, p \in Objects \ closedObjs :
           kind[p] # "none" /\ ofd[p] = ofd[o] /\ fdmap[ofd[p]] = p

\* C18: when Controller.close() returns, running is false, the map is
\* empty, every object constructed has no control and was sent CLOSE, the
\* timer queue is empty and the periodic callout has no observers.
C18_CloseTearsDown ==
    [][(tearing /\ ~tearing') =>
          /\ ~running'
          /\ \A fd \in FDs : fdmap'[fd] = 0
          /\ \A o \in Objects : kind'[o] # "none" =>
                 /\ ~ocontrol'[o]
                 /\ \E i \in 1 .. Len(events'[o]) : events'[o][i] = "CLOSE"
          /\ schedq' = <<>>
          /\ callbacks' = <<>>]_vars

(***************************************************************************)
(*                      Claims about the loop of run()                     *)
(***************************************************************************)

\* No timer is pending: the queue is empty or holds cancelled timers only.
NoPending == \A i \in 1 .. Len(schedq) : when[schedq[i]] = None

\* run() takes its poll step with no pending timer and no object that
\* wants read or write.
StalledPoll == lpc = "poll" /\ lpc' # "poll" /\ NoPending /\ ~wants

C19_StopReturns == ~running => lpc \notin {"blocked", "raised"}

(***************************************************************************)
(*                        Claims about the scanner                         *)
(***************************************************************************)

\* What one _scan call on a new Scannable delivers for the whole data.
Whole(rs, data) == ScanLoop(rs, data, <<>>).out

\* C20, as the specification states it: whatever the rules, the contexts
\* delivered for data fed in chunks are those delivered for the same data
\* fed in one _scan call.
C20_ChunksAsWhole ==
    scanner # <<>> => delivered = Whole(scanner, Concat(chunks))

\* A match of these rules is not changed by the bytes that follow it: where
\* the rule list matches a buffer, it matches the buffer with one more byte
\* by the same rule and the same text.
Settled(rs) ==
    \A buf \in Strings(MaxData - 1), c \in Alphabet :
        LET r == RegexScan(rs, buf)
            q == RegexScan(rs, Append(buf, c))
        IN  r.matched =>
               /\ q.matched /\ q.event = r.event
               /\ q.remains = Append(r.remains, c)

SettledSets == {rs \in RuleSets : Settled(rs)}

\* C20, amended: with rules whose matches are not changed by later bytes,
\* such as the rule (.*)\n alone, the contexts delivered for data fed in
\* chunks are those delivered for the same data fed in one _scan call.
C20_SettledChunksAsWhole ==
    scanner \in SettledSets => delivered = Whole(scanner, Concat(chunks))

\* C20 happens: with the line rule alone, "ab" and then "a" and a newline
\* were fed, and one context with the group "aba" was delivered.
C20_Witness ==
    /\ scanner = <<LineRule>>
    /\ chunks = <<<<"a", "b">>, <<"a", "n">>>>
    /\ delivered = <<[state |-> "LINE", groups |-> <<<<"a", "b", "a">>>>]>>

(***************************************************************************)
(*                       Claims about the ByteLimit                        *)
(***************************************************************************)

SocketOpen(o) == \E p \in Objects : ofd[p] = ofd[o] /\ fdOpen[p]

\* This step calls out a context of this state to the observers of o,
\* after others or not.
Calls(o, state) ==
    \E i \in Len(events[o]) + 1 .. Len(events'[o]) : events'[o][i] = state

\* C24: when a Connector calls out 'connected', it is out of the
\* Controller already and its close() has left the socket open, so that
\* the observer that constructs a Stream on the socket does not fail the
\* assertion of Controller.insert.
C24_ConnectedHandsOver ==
    [][\A o \in Objects : Calls(o, "connected") =>
          /\ Deregistered(o)'
          /\ SocketOpen(o)'
          /\ ~asserted']_vars

\* C24 happens: a Connector has called out 'connected' and the observer's
\* Stream is in the Controller on the Connector's descriptor, which is open.
C24_Witness ==
    \E o \in Objects, p \in Objects :
        /\ kind[o] = "Connector" /\ kind[p] = "Stream"
        /\ Len(events[o]) > 0 /\ events[o][Len(events[o])] = "connected"
        /\ ofd[p] = ofd[o] /\ fdmap[ofd[p]] = p /\ fdOpen[p]
        /\ ~asserted

\* C29: in one batch of I/O callbacks, run() calls no _can_read and no
\* _can_write of an object that a callback of the batch has closed before.
C29_ClosedIsSkipped ==
    [][\A o \in Objects, op \in {"read", "write"} :
          (<<o, op>> \in served' /\ <<o, op>> \notin served) => o \notin gone]_vars

\* C29 happens: an object returned as readable and as writable closed
\* itself in its read handler, and the loop over the writable objects has
\* passed it without calling its _can_write.
C29_Witness ==
    \E o \in reads \cap wdone :
        /\ <<o, "read">> \in served
        /\ o \in gone
        /\ <<o, "write">> \notin served

(***************************************************************************)
(*                   Claims about the dispatch passes                      *)
(***************************************************************************)

\* A pass of _dispatch ends here, and not by the backstop or by stop().
PassEnds ==
    /\ tpc \in {"dispatch1", "dispatch2"}
    /\ tpc' # tpc
    /\ running
    /\ backstop - 1 >= 0

\* C27: when a dispatch pass ends below the backstop limit, no timer that
\* is not cancelled and whose fire time is at or before the current time
\* is left in the queue, whatever schedule and cancel calls came before.
C27_PassFiresAllDue ==
    [][PassEnds => \A t \in Pending : when[t] > now]_vars

\* The first _dispatch pass of a turn of the loop returns by its backstop:
\* TIMERLIMIT entries were handled and a due timer is at the head still.
BackstopReturns ==
    /\ lpc = "none" /\ tpc = "dispatch1" /\ tpc' = "select"
    /\ running /\ schedq # <<>> /\ backstop - 1 < 0
    /\ when[schedq[1]] # None /\ when[schedq[1]] <= now

\* run() is at its poll step and leaves it by an exception.
PollAborts ==
    lpc = "poll" /\ (HeadCancelled \/ ~Asserted(Timeout, wants))

\* C28: when a dispatch pass stops at the backstop with due timers left,
\* run() goes on to its poll step and the poll step does not end run():
\* the backstop never aborts run().
C28_BackstopGoesOnToPoll ==
    [][BackstopReturns => (lpc' = "poll" /\ ~PollAborts')]_vars

\* C36: while a timer that is not cancelled is in the queue, the poll step
\* of run() does not raise: it calls select with a timeout that is a
\* number and not negative, whatever the time is and whether or not an
\* object wants to read or write.
C36_PendingTimerPolls ==
    [][(lpc = "poll" /\ lpc' # "poll" /\ running /\ Pending # {}) =>
          /\ lpc' = "blocked"
          /\ deadline' # None
          /\ deadline' >= now]_vars

(***************************************************************************)
(*                        Claims about the Datagram                        *)
(***************************************************************************)

\* C22: a readable event receives one packet, and the packet is either
\* consumed by the scanner (a rule matches it) or called out to the
\* observers as one DGRAM context with the packet and its source; with no
\* scanner, and with a scanner that matches nothing, it is called out.
C22_PacketNeverDropped ==
    [][Len(dgRecv') = Len(dgRecv) + 1 =>
          LET p == dgRecv'[Len(dgRecv')]
              dgram == [state |-> "DGRAM", data |-> p.data, source |-> p.addr]
              new == SubSeq(dgOut', Len(dgOut) + 1, Len(dgOut'))
          IN  \/ dgScan # <<>> /\ RegexScan(dgScan, p.data).matched
              \/ \E i \in 1 .. Len(new) : new[i] = dgram]_vars

\* C23: queued packets go to sendto one per writable event, in the order
\* written and once each, and a send of fewer bytes than the packet has
\* puts an ERROR context in front of the observers, leaves run() running
\* and does not queue the packet again.
C23_ShortSendIsError ==
    [][Len(dgWire') = Len(dgWire) + 1 =>
          LET w == dgWire'[Len(dgWire')]
          IN  /\ dgQueue # <<>> /\ dgQueue' = Tail(dgQueue)
              /\ w.data = Head(dgQueue).data /\ w.addr = Head(dgQueue).addr
              /\ (w.sent # None /\ w.sent < Len(w.data)) =>
                    /\ dgRaised' = ""
                    /\ Len(dgOut') = Len(dgOut) + 1
                    /\ dgOut'[Len(dgOut')].state = "ERROR"]_vars

(***************************************************************************)
(*                      Claims about the ChunkedCoder                      *)
(***************************************************************************)

\* The bytes of the RAW contexts among these, in order.
RECURSIVE RawBytes(_)
RawBytes(out) ==
    IF out = <<>> THEN <<>>
    ELSE (IF Head(out).state = "RAW" THEN Head(out).data ELSE <<>>)
         \o RawBytes(Tail(out))

\* C25: when all that write() calls and write_flush() have written has come
\* in as RAW, what went downstream is the written bytes, no more and no
\* fewer, and then END, once.
C25_ChunkedRoundTrip ==
    (chFlushed /\ chFed = Len(chWire)) =>
        /\ chRaised = ""
        /\ chOut # <<>>
        /\ chOut[Len(chOut)].state = "END"
        /\ \A i \in 1 .. Len(chOut) - 1 : chOut[i].state = "RAW"
        /\ RawBytes(chOut) = Concat(chWrites)

(***************************************************************************)
(*                       Claims about the GZipCoder                        *)
(***************************************************************************)

\* C26: when all that write() calls and write_flush() have written has come
\* in as RAW and END has come in after it, what went downstream is the
\* data of all the write() calls in order, and then END; also when nothing
\* was written and END comes first.
C26_GZipRoundTrip ==
    (gzFlushed /\ gzFed = Len(gzWire) /\ (gzEnded \/ gzRaised # "")) =>
        /\ gzRaised = ""
        /\ gzOut # <<>>
        /\ gzOut[Len(gzOut)].state = "END"
        /\ RawBytes(gzOut) = Concat(gzWrites)

(***************************************************************************)
(*                  Claims about the bytes a Stream writes                 *)
(***************************************************************************)

\* C30: for an open Stream, the bytes os.write has taken followed by the
\* write buffer are the arguments of the write() calls one after the other,
\* whatever part of the buffer each os.write took; an os.write that would
\* block takes nothing, has no observer called, and leaves the Stream
\* wanting to write; and the Stream wants to write exactly while its buffer
\* is not empty.
C30_BufferKeepsTheBytes ==
    [][/\ swOpen' => swAccepted' \o swBuf' = swArgs'
       /\ swOpen' => (StreamWantsWrite(swBuf') <=> Len(swBuf') > 0)
       /\ (swLast' = "EAGAIN" /\ <<swBuf, swArgs, swLast>>
                                    # <<swBuf', swArgs', swLast'>>) =>
             /\ swAccepted' = swAccepted
             /\ swBuf' = swBuf \o SubSeq(swArgs', Len(swArgs) + 1, Len(swArgs'))
             /\ swOut' = swOut
             /\ StreamWantsWrite(swBuf')]_vars

\* An os.write has taken a part of the buffer, a later one would block,
\* and bytes of two write() calls wait in the buffer.
C30_Witness ==
    /\ swOpen /\ swLast = "EAGAIN"
    /\ Len(swAccepted) = 1 /\ Len(swBuf) = 2 /\ swBuf[1] # swBuf[2]

(***************************************************************************)
(*               Claims about replacing a Scannable's scanner              *)
(***************************************************************************)

\* C31: a scanner that replaces the active one, during a _scan call or
\* between two of them, is given bytes when data arrives next: no context
\* of the call in which it was set comes from it (nor is RAW called out in
\* that call when scan was set to None).
C31_NewScannerWaits ==
    [][(xPasses' = xPasses + 1 /\ xScan' # xScan) =>
          \A i \in Len(xOut) + 1 .. Len(xOut') : xOut'[i].by = xScan]_vars

(***************************************************************************)
(*             Claims about how the chunked bytes are split                *)
(***************************************************************************)

\* What a ChunkedCoder calls out when all the bytes come in one RAW event.
AtOnce ==
    PassLoop([remain |-> 0, pending |-> <<>>, out |-> <<>>, raised |-> ""],
             chWire).out

\* C32: when all the chunked bytes have come in, in whatever pieces, the
\* RAW bytes called out are those called out when the bytes come in one
\* piece, END was called out once, and no RAW was called out after END.
C32_SplitsDoNotMatter ==
    (chFlushed /\ chFed = Len(chWire) /\ chRaised = "") =>
        /\ RawBytes(chOut) = RawBytes(AtOnce)
        /\ Cardinality({i \in 1 .. Len(chOut) : chOut[i].state = "END"}) = 1
        /\ chOut[Len(chOut)].state = "END"

(***************************************************************************)
(*                    Claims about the FilterCallables                     *)
(***************************************************************************)

\* The chain of filter n: n, its upstream, the upstream of that, ...
RECURSIVE Links(_, _)
Links(up, n) ==
    IF n = 0 THEN {} ELSE IF n = 1 THEN {1} ELSE {n} \cup Links(up, up[n])

\* C33: close() on a filter closes all of its chain: every filter of the
\* chain has no upstream then and its incoming is not registered on what
\* was its upstream, and the Stream at the end of the chain is out of the
\* descriptor map and its I/O object closed; close() on a filter that has
\* no upstream changes nothing.
C33_CloseIsTransitive ==
    [][fCloses' = fCloses + 1 =>
          /\ \A g \in Links(fUp, fClosed') \ {1} :
                /\ fUp'[g] = 0
                /\ fUp[g] # 0 => ~Hooked(fCb', fUp[g], g)
          /\ 1 \in Links(fUp, fClosed') => ~fOpen' /\ ~fFile'
          /\ fUp[fClosed'] = 0 =>
                UNCHANGED <<fUp, fCb, fOpen, fFile, fGot, fSent>>]_vars

\* One close() call has closed a chain of all the filters and the Stream.
C33_Witness ==
    /\ fCloses = 1
    /\ \A f \in Filters : fBy[f] # "" /\ fUp[f] = 0 /\ fGot[f] = <<>>
    /\ \E f \in Filters : f # fClosed
    /\ ~fOpen /\ ~fFile /\ fSent[1] = <<"CLOSE">>

\* C34: a context the Stream calls out comes to incoming of every filter
\* that was attached to the Stream, by open() or by insert_filter(), and
\* has it as its upstream; and after insert_filter() the incoming of the
\* filter it was called on is not registered on that upstream any more.
C34_AttachedFilterHears ==
    [][/\ (/\ Len(fSent'[1]) > Len(fSent[1])
           /\ fSent'[1][Len(fSent[1]) + 1] \in {"RAW", "END", "ERROR"}) =>
             \A f \in Filters :
                fUp[f] = 1 =>
                   /\ Len(fGot'[f]) > Len(fGot[f])
                   /\ fGot'[f][Len(fGot[f]) + 1] = fSent'[1][Len(fSent[1]) + 1]
       /\ \A f, h \in Filters :
             (fBy[f] = "" /\ fBy'[f] = "insert" /\ fUp'[h] = f) =>
                /\ Hooked(fCb', fUp'[f], f)
                /\ ~Hooked(fCb', fUp'[f], h)]_vars

(***************************************************************************)
(*                      Claims about the TCPListener                       *)
(***************************************************************************)

\* C35: after any listen(), accepting() and close() calls every Listener
\* of the TCPListener has _accept in its callbacks once when the
\* TCPListener is active and not at all when it is not; and an 'accept'
\* is called out only while it is active, one for a connection.
C35_ForwarderOnceWhenActive ==
    [][/\ \A r \in lBound' : lHooks'[r] = IF lActive' THEN 1 ELSE 0
       /\ ~lActive' => \A r \in lBound' : ~(lHooks'[r] > 0)
       /\ lAccepts' # lAccepts => lActive /\ lAccepts' = lAccepts + 1]_vars

\* A connection was accepted by a TCPListener that is active, with all its
\* Listeners, after two calls of listen(), accepting() or close().
C35_Witness ==
    lAccepts = 1 /\ lActive /\ lCalls = 2 /\ lBound = Res

(***************************************************************************)
(*                 Claims about how often a Stream is closed               *)
(***************************************************************************)

\* C37: whatever close(), shutdown() and end-of-input come, and whatever
\* the observers call while they handle END or CLOSE, CLOSE is called out
\* at most once, the object is taken off the descriptor map at most once
\* and its OS descriptor is closed at most once.
C37_ClosedOnce ==
    ioCloses <= 1 /\ ioRemoves <= 1 /\ ioOsCloses <= 1

(***************************************************************************)
(*             Claims about the last event of a TCPConnector               *)
(***************************************************************************)

\* The terminal events a TCPConnector has called out.
Terminal ==
    {i \in 1 .. Len(emitted) :
        emitted[i].state \in {"connected", "ERROR", "CANCELLED"}}

\* The driver has finished: 'connected' was forwarded, or the ERROR of the
\* exhausted candidate list was called out.
Finished ==
    \E i \in 1 .. Len(emitted) : emitted[i].state \in {"connected", "ERROR"}

\* C38: a TCPConnector calls out one terminal event at most among
\* 'connected', ERROR and CANCELLED, and a close() called after the driver
\* has finished calls out no event and closes no Connector.
C38_OneTerminalEvent ==
    [][/\ Cardinality(Terminal') <= 1
       /\ (Finished /\ nCloses' # nCloses)
              => emitted' = emitted /\ cmap' = cmap /\ connector' = connector]_vars

(***************************************************************************)
(*               Claims about the entries of the timer queue               *)
(***************************************************************************)

\* C39: a Scheduled object has one entry in the timer queue at most:
\* schedule() called with a Scheduled that is still in the queue (pending,
\* or cancelled and not yet dropped) moves it and leaves no second entry.
C39_OneQueueEntry == \A t \in Timers : Entries(schedq, t) <= 1

(***************************************************************************)
(*                   Claims about the wake-up of the drain                 *)
(***************************************************************************)

\* Call c is in the queue; call c has been executed.
Queued(c) == \E i \in 1 .. Len(iq) : iq[i] = c
Executed(c) == \E i \in 1 .. Len(executed) : executed[i] = c

\* C40: no wake-up is lost: a call appended to the queue by post() while
\* the reactor runs is executed by the reactor in the end, as long as run()
\* keeps looping (no call ends run() with an exception), however the append
\* and the write of post() interleave with the read and the pops of the
\* drain.
C40_NoLostWakeup ==
    \A c \in 1 .. MaxCalls : Queued(c) ~> (Executed(c) \/ rpc = "crashed")

\* C40 happens: the drain, woken for an earlier call, executes a call that
\* a thread has appended and whose wake-up byte is not written yet.
C40_Witness ==
    /\ rpc = "call"
    /\ executed = <<1>>
    /\ cur = 2
    /\ nCalls = 2
    /\ wpc = "idle"
    /\ pipe = 0
    /\ \E t \in Threads : poster[t] = "appended"

=============================================================================
